---- MODULE Spec2Model ----
(***************************************************************************)
(* nccl_harness: the sweep driver of src/main.rs (permutation generation,  *)
(* the execution loop and the manifest), the run wrapper of src/wrapper.rs *)
(* and the naming functions of src/util.rs, as a state machine.            *)
(*                                                                         *)
(* The dimension lists, the blacklist and the policies are literals or     *)
(* environment variables in main.rs; here they are inputs, drawn in Init.  *)
(* File names are modelled by the token sequence their format! string      *)
(* joins, a path by the directory and the name it joins.                   *)
(***************************************************************************)
EXTENDS Integers, Sequences, FiniteSets, TLC

VARIABLES
    \* ---- configuration (never changes after Init)
    collectives,                \* main.rs:213
    comm_algorithms,            \* main.rs:238
    data_types,                 \* main.rs:232
    reduction_ops,              \* main.rs:225
    buffer_sizes,               \* main.rs:263
    gpus_as_nodes,              \* main.rs:269
    num_nodes,                  \* main.rs:124 (NUM_NODES)
    gpus_per_node,              \* main.rs:135 (GPUS_PER_NODE)
    no_check_paths,             \* cargo feature "no_check_paths" (relaxed mode)
    blacklist,                  \* main.rs:275
    skip_finished,              \* main.rs:167 (SKIP_FINISHED)
    ignore_error_status_codes,  \* third argument of run_msccl_tests, main.rs:515
    \* ---- the file system
    missing_xmls,               \* XML paths under MSCCL_XMLS that do not exist
    files,                      \* files that exist under EXPERIMENTS_OUTPUT_DIR
    \* ---- main
    pc,                         \* position of main
    gen_pos,                    \* position in the generation loop nest
    experiment_descriptors,     \* main.rs:286
    progress,                   \* main.rs:423, index of the descriptor (1-based)
    i,                          \* main.rs:424, repetition index (0-based)
    attempts,                   \* the (progress, i) of the iterations begun so far
    manifest_collection,        \* main.rs:419
    report,                     \* the tables printed by pretty_print_result_manifest
    \* ---- run_msccl_tests and the external process of the current attempt
    spawned,                    \* number of Command::spawn calls so far
    running,                    \* attempts whose child has been spawned and not waited for
    stdout_seen,                \* stdout lines read by the loop of wrapper.rs:106
    stderr_seen,                \* number of stderr lines read by wrapper.rs:123
    rows,                       \* wrapper.rs:102
    status,                     \* result of res.wait(), wrapper.rs:136
    failures,                   \* unsuccessful terminations so far (bounded)
    \* ---- parse_line and its caller
    lines,                      \* the lines of a stream given to parse_line
    results,                    \* what parse_line returned for the lines so far
    \* ---- the naming functions and their callers
    calls                       \* the calls made so far, each with the name it returned

config == <<collectives, comm_algorithms, data_types, reduction_ops, buffer_sizes,
            gpus_as_nodes, num_nodes, gpus_per_node, no_check_paths, blacklist,
            skip_finished, ignore_error_status_codes>>
fsvars == <<missing_xmls, files>>
genvars == <<gen_pos, experiment_descriptors>>
loopvars == <<progress, i, attempts>>
procvars == <<spawned, running, stdout_seen, stderr_seen, rows, status, failures>>
parsevars == <<lines, results>>
namevars == <<calls>>
vars == <<config, fsvars, pc, genvars, loopvars, manifest_collection, report, procvars,
          parsevars, namevars>>

----------------------------------------------------------------------------
\* Bounds of the model.

\* longest collective list and longest algorithm list
MaxIds == 2
\* XML files missing from MSCCL_XMLS
MaxMissing == 1
\* entries of the blacklist
MaxBlacklist == 2
\* files in the output directory when the program starts
MaxFiles == 1
\* external processes that end unsuccessfully in one sweep
MaxFailures == 1
\* lines an external process writes to one stream
MaxLines == 1
\* lines of a stream given to parse_line
MaxStream == 3
\* calls of the naming functions that are compared with one another
MaxCalls == 2

\* main.rs:212
num_repetitions == 2

----------------------------------------------------------------------------
\* Generic helpers.

SeqsUpTo(S, n) == UNION {[1..k -> S] : k \in 0..n}

SubsetsUpTo(S, n) == {T \in SUBSET S : Cardinality(T) <= n}

Range(s) == {s[k] : k \in 1..Len(s)}

Last(s) == s[Len(s)]

----------------------------------------------------------------------------
\* util.rs: the naming functions and the manifest types.

\* util.rs:141-157. Ok(executable name) or Err.
collective_to_test_exe(collective) ==
    CASE collective = "all-reduce"     -> [ok |-> TRUE, val |-> "all_reduce_perf"]
      [] collective = "all-gather"     -> [ok |-> TRUE, val |-> "all_gather_perf"]
      [] collective = "all-to-all"     -> [ok |-> TRUE, val |-> "alltoall_perf"]
      [] collective = "broadcast"      -> [ok |-> TRUE, val |-> "broadcast_perf"]
      [] collective = "gather"         -> [ok |-> TRUE, val |-> "gather_perf"]
      [] collective = "hypercube"      -> [ok |-> TRUE, val |-> "hypercube_perf"]
      [] collective = "reduce"         -> [ok |-> TRUE, val |-> "reduce_perf"]
      [] collective = "reduce-scatter" -> [ok |-> TRUE, val |-> "reduce_scatter_perf"]
      [] collective = "scatter"        -> [ok |-> TRUE, val |-> "scatter_perf"]
      [] collective = "sendrecv"       -> [ok |-> TRUE, val |-> "sendrecv_perf"]
      [] OTHER                         -> [ok |-> FALSE, val |-> "Err"]

\* util.rs:268-282
converted_collective(collective) ==
    CASE collective = "all-reduce"     -> [ok |-> TRUE, val |-> "allreduce"]
      [] collective = "all-gather"     -> [ok |-> TRUE, val |-> "allgather"]
      [] collective = "all-to-all"     -> [ok |-> TRUE, val |-> "alltoall"]
      [] collective = "broadcast"      -> [ok |-> TRUE, val |-> "broadcast"]
      [] collective = "gather"         -> [ok |-> TRUE, val |-> "gather"]
      [] collective = "hypercube"      -> [ok |-> TRUE, val |-> "hypercube"]
      [] collective = "reduce"         -> [ok |-> TRUE, val |-> "reduce"]
      [] collective = "reduce-scatter" -> [ok |-> TRUE, val |-> "reducescatter"]
      [] collective = "scatter"        -> [ok |-> TRUE, val |-> "scatter"]
      [] collective = "sendrecv"       -> [ok |-> TRUE, val |-> "sendrecv"]
      [] OTHER                         -> [ok |-> FALSE, val |-> "Err"]

\* util.rs:285-295
converted_algo(comm_algorithm) ==
    CASE comm_algorithm = "binary-tree"                -> [ok |-> TRUE, val |-> "binary_tree"]
      [] comm_algorithm = "binomial-tree"              -> [ok |-> TRUE, val |-> "binomial_tree"]
      [] comm_algorithm = "recursive-doubling"         -> [ok |-> TRUE, val |-> "recursive_doubling"]
      [] comm_algorithm = "recursive-halving-doubling" -> [ok |-> TRUE, val |-> "recursive_doubling_halving"]
      [] comm_algorithm = "ring"                       -> [ok |-> TRUE, val |-> "ring"]
      [] comm_algorithm = "trinomial-tree"             -> [ok |-> TRUE, val |-> "trinomial_tree"]
      [] OTHER                                         -> [ok |-> FALSE, val |-> "Err"]

\* `if gpu_as_node { 1 } else { 0 }`, util.rs:127 and util.rs:307
gan(gpu_as_node) == IF gpu_as_node THEN 1 ELSE 0

\* a name with the channel count and the chunk count exchanged
params_to_xml_exchanged(collective, comm_algorithm, nodes, gpus, msccl_channels, msccl_chunks, gpu_as_node) ==
    [ok |-> converted_collective(collective).ok /\ converted_algo(comm_algorithm).ok,
     val |-> <<converted_collective(collective).val, comm_algorithm, "node", nodes,
               "gpu", gpus, "mcl", msccl_chunks, "mck", msccl_channels,
               "gan", gan(gpu_as_node), "xml">>]

\* a name without the gpu_as_node token
params_to_xml_without_gan(collective, comm_algorithm, nodes, gpus, msccl_channels, msccl_chunks, gpu_as_node) ==
    [ok |-> converted_collective(collective).ok /\ converted_algo(comm_algorithm).ok,
     val |-> <<converted_collective(collective).val, comm_algorithm, "node", nodes,
               "gpu", gpus, "mcl", msccl_channels, "mck", msccl_chunks, "xml">>]

\* util.rs:258-309. The name is the token sequence of
\* "{}_{}_node{}_gpu{}_mcl{}_mck{}_gan{}.xml"; the second token is the
\* algorithm as given (comm_algorithm), not its converted form.
params_to_xml(collective, comm_algorithm, nodes, gpus, msccl_channels, msccl_chunks, gpu_as_node) ==
    IF ~converted_collective(collective).ok THEN [ok |-> FALSE, val |-> <<>>]
    ELSE IF ~converted_algo(comm_algorithm).ok THEN [ok |-> FALSE, val |-> <<>>]
    ELSE [ok |-> TRUE,
          val |-> <<converted_collective(collective).val, comm_algorithm, "node", nodes,
                    "gpu", gpus, "mcl", msccl_channels, "mck", msccl_chunks,
                    "gan", gan(gpu_as_node), "xml">>]

\* a naming function that numbers the names by the calls made before, instead of
\* by the repetition it is given
output_filename_numbered(params, iteration, extension) ==
    <<params.nc_collective, params.algorithm, "node", params.num_nodes,
      "gpu", params.total_gpus, "mcl", params.ms_channels, "mck", params.ms_chunks,
      "buf", params.buffer_size, "gan", gan(params.gpu_as_node), "i", Len(calls),
      extension>>

\* util.rs:114-131: "{}_{}_node{}_gpu{}_mcl{}_mck{}_buf{}_gan{}_i{}.{}"
exp_params_to_output_filename(params, iteration, extension) ==
    <<params.nc_collective, params.algorithm, "node", params.num_nodes,
      "gpu", params.total_gpus, "mcl", params.ms_channels, "mck", params.ms_chunks,
      "buf", params.buffer_size, "gan", gan(params.gpu_as_node), "i", iteration,
      extension>>

\* PathBuf::join of a directory and a relative name
Join(dir, name) == [dir |-> dir, name |-> name]

\* util.rs:79-85
ResultDescription == {"Success", "PartialFailure", "Failure", "Skipped", "Blacklisted"}

\* util.rs:101-112, as filled in at main.rs:472-482, 495-505, 528-538, 559-569
ManifestEntry(d, result) ==
    [collective |-> d.nc_collective, op |-> d.nc_op, dtype |-> d.nc_dtype,
     algorithm |-> d.algorithm, num_channels |-> d.ms_channels,
     num_chunks |-> d.ms_chunks, num_gpus |-> d.total_gpus,
     buffer_size_factor |-> d.buffer_size, overall_result |-> result]

\* util.rs:87-97 and util.rs:232-238: the text of the "Overall Result" cell
result_pretty(result) ==
    CASE result = "Success"        -> <<"check", "Success">>
      [] result = "PartialFailure" -> <<"chain", "Partial Failure">>
      [] result = "Failure"        -> <<"cross", "Failure">>
      [] result = "Skipped"        -> <<"next", "Skipped">>
      [] result = "Blacklisted"    -> <<"heart", "Blacklisted">>

\* util.rs:224-255: the title row, then one row per entry, in the order of entries
pretty_print_result_manifest(entries) ==
    <<"title">> \o
    [k \in 1..Len(entries) |->
        <<entries[k].collective, entries[k].op, entries[k].dtype, entries[k].algorithm,
          entries[k].num_channels, entries[k].num_chunks, entries[k].num_gpus,
          entries[k].buffer_size_factor, result_pretty(entries[k].overall_result)>>]

----------------------------------------------------------------------------
\* parse.rs: parse_line. A line and a token are sequences of characters
\* (strings of length one). An unsigned value is its sequence of decimal digits
\* without leading zeros; 64-bit ranges are compared digit by digit.

Whitespace == {" ", "\t"}

Digit == {"0", "1", "2", "3", "4", "5", "6", "7", "8", "9"}

UpperCase ==
    <<"A", "B", "C", "D", "E", "F", "G", "H", "I", "J", "K", "L", "M",
      "N", "O", "P", "Q", "R", "S", "T", "U", "V", "W", "X", "Y", "Z">>

LowerCase ==
    <<"a", "b", "c", "d", "e", "f", "g", "h", "i", "j", "k", "l", "m",
      "n", "o", "p", "q", "r", "s", "t", "u", "v", "w", "x", "y", "z">>

\* parse.rs:38, the class [A-z0-9]: the ASCII range from 'A' to 'z' holds the
\* letters and the characters between 'Z' and 'a' (of these, the backslash and
\* the grave accent never occur in the lines of this model)
ClassAz09 ==
    Range(UpperCase) \cup {"[", "]", "^", "_"} \cup Range(LowerCase) \cup Digit

\* parse.rs:35, str::split_whitespace: the maximal runs of characters that are
\* not whitespace, in order; never an empty token
RECURSIVE split_whitespace(_)
split_whitespace(line) ==
    IF line = <<>> THEN <<>>
    ELSE IF Head(line) \in Whitespace THEN split_whitespace(Tail(line))
    ELSE LET stops == {k \in 1..Len(line) : line[k] \in Whitespace}
             n == IF stops = {} THEN Len(line)
                  ELSE (CHOOSE k \in stops : \A m \in stops : k <= m) - 1
         IN <<SubSeq(line, 1, n)>> \o split_whitespace(SubSeq(line, n + 1, Len(line)))

\* parse.rs:38-41, Regex::is_match of [A-z0-9]+:[0-9]+:[0-9]+ : the pattern is
\* not anchored, it matches anywhere in the line
re_is_match(line) ==
    \E p, q \in 1..Len(line) :
        /\ p > 1 /\ line[p - 1] \in ClassAz09
        /\ line[p] = ":"
        /\ q > p + 1
        /\ \A k \in (p + 1)..(q - 1) : line[k] \in Digit
        /\ line[q] = ":"
        /\ q < Len(line) /\ line[q + 1] \in Digit

\* the digits of a decimal number without its leading zeros
RECURSIVE strip_leading_zeros(_)
strip_leading_zeros(digits) ==
    IF Len(digits) > 1 /\ Head(digits) = "0" THEN strip_leading_zeros(Tail(digits))
    ELSE digits

\* the digits of a fraction without its trailing zeros
RECURSIVE strip_trailing_zeros(_)
strip_trailing_zeros(digits) ==
    IF digits # <<>> /\ digits[Len(digits)] = "0"
    THEN strip_trailing_zeros(SubSeq(digits, 1, Len(digits) - 1))
    ELSE digits

digit_value(c) == CHOOSE d \in 0..9 : <<"0", "1", "2", "3", "4", "5", "6", "7", "8", "9">>[d + 1] = c

\* a <= b for two digit sequences of the same length
RECURSIVE digits_leq(_, _)
digits_leq(a, b) ==
    IF a = <<>> THEN TRUE
    ELSE IF Head(a) # Head(b) THEN digit_value(Head(a)) < digit_value(Head(b))
    ELSE digits_leq(Tail(a), Tail(b))

\* the number of the digits is at most the number of the digits of max
fits(digits, max) ==
    LET d == strip_leading_zeros(digits)
    IN Len(d) < Len(max) \/ (Len(d) = Len(max) /\ digits_leq(d, max))

\* u64::MAX = 18446744073709551615
u64_max ==
    <<"1", "8", "4", "4", "6", "7", "4", "4", "0", "7", "3", "7", "0", "9", "5", "5",
      "1", "6", "1", "5">>

\* i64::MAX = 9223372036854775807
i64_max ==
    <<"9", "2", "2", "3", "3", "7", "2", "0", "3", "6", "8", "5", "4", "7", "7", "5",
      "8", "0", "7">>

\* -i64::MIN = 9223372036854775808
i64_min_magnitude ==
    <<"9", "2", "2", "3", "3", "7", "2", "0", "3", "6", "8", "5", "4", "7", "7", "5",
      "8", "0", "8">>

all_digits(s) == s # <<>> /\ \A k \in 1..Len(s) : s[k] \in Digit

\* parse.rs:53, 61, str::parse::<u64>: an optional '+', then digits, within
\* the range of u64
parse_u64(token) ==
    LET body == IF token # <<>> /\ Head(token) = "+" THEN Tail(token) ELSE token
    IN IF all_digits(body) /\ fits(body, u64_max)
       THEN [ok |-> TRUE, val |-> strip_leading_zeros(body)]
       ELSE [ok |-> FALSE, val |-> <<>>]

\* parse.rs:74, str::parse::<i64>: an optional '+' or '-', then digits, within
\* the range of i64
parse_i64(token) ==
    LET signed == token # <<>> /\ Head(token) \in {"+", "-"}
        neg == token # <<>> /\ Head(token) = "-"
        body == IF signed THEN Tail(token) ELSE token
    IN IF all_digits(body) /\ fits(body, IF neg THEN i64_min_magnitude ELSE i64_max)
       THEN [ok |-> TRUE,
             val |-> [neg |-> neg /\ strip_leading_zeros(body) # <<"0">>,
                      digits |-> strip_leading_zeros(body)]]
       ELSE [ok |-> FALSE, val |-> [neg |-> FALSE, digits |-> <<>>]]

\* the number a sequence of digits denotes
RECURSIVE digits_to_nat(_)
digits_to_nat(digits) ==
    IF digits = <<>> THEN 0
    ELSE 10 * digits_to_nat(SubSeq(digits, 1, Len(digits) - 1))
         + digit_value(digits[Len(digits)])

to_ascii_lowercase(s) ==
    [k \in 1..Len(s) |->
        IF s[k] \in Range(UpperCase)
        THEN LowerCase[CHOOSE n \in 1..26 : UpperCase[n] = s[k]]
        ELSE s[k]]

\* an f64 that is neither finite nor zero: inf or NaN
f64_special(class, neg) == [class |-> class, neg |-> neg, mant |-> <<>>, exp |-> 0]

\* parse.rs:81-117, str::parse::<f64>: an optional sign, then "inf",
\* "infinity" or "nan" in any case, or a decimal number (digits with at most
\* one '.', at least one digit) with an optional exponent. The value of a
\* decimal is kept exactly, as the digits of its mantissa without leading or
\* trailing zeros and its power of ten (tokens of up to 15 significant digits
\* denote distinct f64 values).
parse_f64(token) ==
    LET signed == token # <<>> /\ Head(token) \in {"+", "-"}
        neg == token # <<>> /\ Head(token) = "-"
        body == IF signed THEN Tail(token) ELSE token
        es == {k \in 1..Len(body) : body[k] \in {"e", "E"}}
        e == IF es = {} THEN Len(body) + 1 ELSE CHOOSE k \in es : \A m \in es : k <= m
        mantissa == SubSeq(body, 1, e - 1)
        exponent == SubSeq(body, e + 1, Len(body))
        dots == {k \in 1..Len(mantissa) : mantissa[k] = "."}
        d == IF dots = {} THEN Len(mantissa) + 1 ELSE CHOOSE k \in dots : TRUE
        int == SubSeq(mantissa, 1, d - 1)
        frac == SubSeq(mantissa, d + 1, Len(mantissa))
        xneg == exponent # <<>> /\ Head(exponent) = "-"
        xdigits == IF exponent # <<>> /\ Head(exponent) \in {"+", "-"}
                   THEN Tail(exponent) ELSE exponent
        decimal == /\ Cardinality(dots) <= 1
                   /\ \A k \in 1..Len(int) : int[k] \in Digit
                   /\ \A k \in 1..Len(frac) : frac[k] \in Digit
                   /\ Len(int) + Len(frac) >= 1
                   /\ es # {} => all_digits(xdigits)
        x == IF es = {} THEN 0
             ELSE IF xneg THEN 0 - digits_to_nat(xdigits) ELSE digits_to_nat(xdigits)
        significant == strip_trailing_zeros(int \o frac)
        special == to_ascii_lowercase(body)
    IN IF special \in {<<"i", "n", "f">>, <<"i", "n", "f", "i", "n", "i", "t", "y">>}
       THEN [ok |-> TRUE, val |-> f64_special("inf", neg)]
       ELSE IF special = <<"n", "a", "n">>
       THEN [ok |-> TRUE, val |-> f64_special("nan", neg)]
       ELSE IF ~decimal THEN [ok |-> FALSE, val |-> f64_special("nan", FALSE)]
       ELSE IF \A k \in 1..Len(significant) : significant[k] = "0"
       THEN [ok |-> TRUE,
             val |-> [class |-> "finite", neg |-> neg, mant |-> <<"0">>, exp |-> 0]]
       ELSE [ok |-> TRUE,
             val |-> [class |-> "finite", neg |-> neg,
                      mant |-> strip_leading_zeros(significant),
                      exp |-> x - Len(frac) + (Len(int) + Len(frac) - Len(significant))]]

\* util.rs:6-20, the fields of Row in declaration order, which is the order
\* in which parse.rs:52-125 evaluates them
RowFields ==
    <<"size", "count", "dtype", "redop", "root", "oop_time", "oop_alg_bw", "oop_bus_bw",
      "oop_num_wrong", "ip_time", "ip_alg_bw", "ip_bus_bw", "ip_num_wrong">>

\* a table with the in-place and out-of-place columns exchanged
column_exchanged(field) ==
    CASE field = "size" -> 0 [] field = "count" -> 1 [] field = "dtype" -> 2
      [] field = "redop" -> 3 [] field = "root" -> 4
      [] field = "oop_time" -> 9 [] field = "oop_alg_bw" -> 10
      [] field = "oop_bus_bw" -> 11 [] field = "oop_num_wrong" -> 12
      [] field = "ip_time" -> 5 [] field = "ip_alg_bw" -> 6
      [] field = "ip_bus_bw" -> 7 [] field = "ip_num_wrong" -> 8

\* parse.rs:53-124: the index into line_slice each field is read from
column(field) ==
    CASE field = "size" -> 0 [] field = "count" -> 1 [] field = "dtype" -> 2
      [] field = "redop" -> 3 [] field = "root" -> 4
      [] field = "oop_time" -> 5 [] field = "oop_alg_bw" -> 6
      [] field = "oop_bus_bw" -> 7 [] field = "oop_num_wrong" -> 8
      [] field = "ip_time" -> 9 [] field = "ip_alg_bw" -> 10
      [] field = "ip_bus_bw" -> 11 [] field = "ip_num_wrong" -> 12

\* util.rs:6-20: the type a field is parsed to
field_type(field) ==
    CASE field \in {"size", "count"} -> "u64"
      [] field = "root" -> "i64"
      [] field \in {"oop_time", "oop_alg_bw", "oop_bus_bw",
                    "ip_time", "ip_alg_bw", "ip_bus_bw"} -> "f64"
      [] OTHER -> "String"

\* line_slice[column(field)]
token_of(line_slice, field) == line_slice[column(field) + 1]

\* a decoder that takes any token for root
decodes_leniently(field, token) ==
    CASE field_type(field) = "u64" -> parse_u64(token).ok
      [] field_type(field) = "i64" -> TRUE
      [] field_type(field) = "f64" -> parse_f64(token).ok
      [] OTHER -> TRUE

\* parse.rs:53-124: the Ok arm of the match on the field's parse; the String
\* fields are copied and take any token
decodes(field, token) ==
    CASE field_type(field) = "u64" -> parse_u64(token).ok
      [] field_type(field) = "i64" -> parse_i64(token).ok
      [] field_type(field) = "f64" -> parse_f64(token).ok
      [] OTHER -> TRUE

\* what evaluating the field's expression does: the index is out of bounds
\* (panic), the parse fails (return Ok(None)), or the field gets its value
field_outcome(line_slice, field) ==
    IF column(field) >= Len(line_slice) THEN "panic"
    ELSE IF ~decodes(field, token_of(line_slice, field)) THEN "return"
    ELSE "value"

\* parse.rs:69-73
redop(token) == IF token = <<>> THEN <<"N", "/", "A">> ELSE token

\* parse.rs:52-125
Row(line_slice) ==
    [size |-> parse_u64(token_of(line_slice, "size")).val,
     count |-> parse_u64(token_of(line_slice, "count")).val,
     dtype |-> token_of(line_slice, "dtype"),
     redop |-> redop(token_of(line_slice, "redop")),
     root |-> parse_i64(token_of(line_slice, "root")).val,
     oop_time |-> parse_f64(token_of(line_slice, "oop_time")).val,
     oop_alg_bw |-> parse_f64(token_of(line_slice, "oop_alg_bw")).val,
     oop_bus_bw |-> parse_f64(token_of(line_slice, "oop_bus_bw")).val,
     oop_num_wrong |-> token_of(line_slice, "oop_num_wrong"),
     ip_time |-> parse_f64(token_of(line_slice, "ip_time")).val,
     ip_alg_bw |-> parse_f64(token_of(line_slice, "ip_alg_bw")).val,
     ip_bus_bw |-> parse_f64(token_of(line_slice, "ip_bus_bw")).val,
     ip_num_wrong |-> token_of(line_slice, "ip_num_wrong")]

NoRow ==
    [size |-> <<>>, count |-> <<>>, dtype |-> <<>>, redop |-> <<>>,
     root |-> [neg |-> FALSE, digits |-> <<>>],
     oop_time |-> f64_special("nan", FALSE), oop_alg_bw |-> f64_special("nan", FALSE),
     oop_bus_bw |-> f64_special("nan", FALSE), oop_num_wrong |-> <<>>,
     ip_time |-> f64_special("nan", FALSE), ip_alg_bw |-> f64_special("nan", FALSE),
     ip_bus_bw |-> f64_special("nan", FALSE), ip_num_wrong |-> <<>>]

\* the results of parse_line: Ok(None), Ok(Some(row)), or a panic
OkNone == [kind |-> "Ok(None)", row |-> NoRow]

OkSome(row) == [kind |-> "Ok(Some)", row |-> row]

Panicked == [kind |-> "panic", row |-> NoRow]

\* parse.rs:52-129: the fields are evaluated in order; the first that does not
\* get a value decides
parse_row(line_slice) ==
    LET stops == {k \in 1..Len(RowFields) :
                     field_outcome(line_slice, RowFields[k]) # "value"}
        first == CHOOSE k \in stops : \A m \in stops : k <= m
    IN IF stops = {} THEN OkSome(Row(line_slice))
       ELSE IF field_outcome(line_slice, RowFields[first]) = "panic" THEN Panicked
       ELSE OkNone

\* a test for table rows that lets a line of 12 tokens through
is_table_row_loose(line_slice) == Len(line_slice) >= 12

\* a row test that lets lines of more than 13 tokens through
is_table_row_at_least(line_slice) == Len(line_slice) >= 13

\* parse.rs:47
is_table_row(line_slice) == Len(line_slice) = 13

\* a test for log rows that gives way to a line of 13 tokens
is_log_row_unless_table(line) == re_is_match(line) /\ Len(split_whitespace(line)) # 13

\* parse.rs:41
is_log_row(line) == re_is_match(line)

\* a parser that ignores the line that follows an ignored line
parse_line_after_ignored(line) ==
    IF results # <<>> /\ results[Len(results)].kind = "Ok(None)" THEN OkNone
    ELSE IF is_log_row(line) THEN OkNone
    ELSE IF is_table_row(split_whitespace(line)) THEN parse_row(split_whitespace(line))
    ELSE OkNone

\* parse.rs:34-133
parse_line(line) ==
    IF is_log_row(line) THEN OkNone
    ELSE IF is_table_row(split_whitespace(line)) THEN parse_row(split_whitespace(line))
    ELSE OkNone


----------------------------------------------------------------------------
\* Lines given to parse_line.

\* the tokens, one space between two of them
RECURSIVE unwords(_)
unwords(tokens) ==
    IF tokens = <<>> THEN <<>>
    ELSE IF Len(tokens) = 1 THEN Head(tokens)
    ELSE Head(tokens) \o <<" ">> \o unwords(Tail(tokens))

\* "1048576 262144 float sum -1 0.123 0.456 0.789 0 0.111 0.222 0.333 0"
ScenarioATokens ==
    <<<<"1", "0", "4", "8", "5", "7", "6">>,
      <<"2", "6", "2", "1", "4", "4">>,
      <<"f", "l", "o", "a", "t">>,
      <<"s", "u", "m">>,
      <<"-", "1">>,
      <<"0", ".", "1", "2", "3">>,
      <<"0", ".", "4", "5", "6">>,
      <<"0", ".", "7", "8", "9">>,
      <<"0">>,
      <<"0", ".", "1", "1", "1">>,
      <<"0", ".", "2", "2", "2">>,
      <<"0", ".", "3", "3", "3">>,
      <<"0">>>>

ScenarioA == unwords(ScenarioATokens)

\* "bench:1234:5678 [0] INFO something happened"
ScenarioB ==
    unwords(<<<<"b", "e", "n", "c", "h", ":", "1", "2", "3", "4", ":", "5", "6", "7", "8">>,
            <<"[", "0", "]">>,
            <<"I", "N", "F", "O">>,
            <<"s", "o", "m", "e", "t", "h", "i", "n", "g">>,
            <<"h", "a", "p", "p", "e", "n", "e", "d">>>>)

\* tokens put in place of a column of the table row: "abc", "-5", "+7", "1.5",
\* "N/A", "nan", "1e3", u64::MAX + 1 and "x:1:2"
VariantTokens ==
    {<<"a", "b", "c">>,
     <<"-", "5">>,
     <<"+", "7">>,
     <<"1", ".", "5">>,
     <<"N", "/", "A">>,
     <<"n", "a", "n">>,
     <<"1", "e", "3">>,
     <<"1", "8", "4", "4", "6", "7", "4", "4", "0", "7", "3", "7", "0", "9", "5", "5", "1", "6", "1", "6">>,
     <<"x", ":", "1", ":", "2">>}

\* the table row with one column replaced
ColumnVariants ==
    {unwords([ScenarioATokens EXCEPT ![k] = v]) : k \in 1..13, v \in VariantTokens}

\* the table row with a column removed, a column added, separated by tabs and
\* runs of spaces, and the empty line
ShapeVariants ==
    {unwords(SubSeq(ScenarioATokens, 1, 12)),
     unwords(Append(ScenarioATokens, <<"0">>)),
     <<" ">> \o unwords([k \in 1..13 |-> ScenarioATokens[k] \o <<"\t">>]),
     unwords(SubSeq(ScenarioATokens, 1, 3)) \o <<" ", " ">>
        \o unwords(SubSeq(ScenarioATokens, 5, 13)),
     unwords(<<<<"b", "e", "n", "c", "h", ":", "1", "2", ":", "3", "4">>,
             <<"1", "0", "4", "8", "5", "7", "6">>,
             <<"2", "6", "2", "1", "4", "4">>,
             <<"f", "l", "o", "a", "t">>,
             <<"s", "u", "m">>,
             <<"-", "1">>,
             <<"0", ".", "1", "2", "3">>,
             <<"0", ".", "4", "5", "6">>,
             <<"0", ".", "7", "8", "9">>,
             <<"0">>,
             <<"0", ".", "1", "1", "1">>,
             <<"0", ".", "2", "2", "2">>,
             <<"0", ".", "3", "3", "3">>>>),
     <<>>}

\* the table row followed by two more tokens, "0" and "abc"
LongRowTokens == ScenarioATokens \o <<<<"0">>, <<"a", "b", "c">>>>

\* lines of 0 to 15 tokens: the first n tokens of the long row, and n times "abc"
CountVariants ==
    {unwords(SubSeq(LongRowTokens, 1, n)) : n \in 0..Len(LongRowTokens)}
        \cup {unwords([k \in 1..n |-> <<"a", "b", "c">>]) : n \in 0..Len(LongRowTokens)}

\* the lines of a stream
StreamLines ==
    {ScenarioA, ScenarioB, unwords(SubSeq(ScenarioATokens, 1, 12)),
     unwords(SubSeq(LongRowTokens, 1, 14)), <<>>}

----------------------------------------------------------------------------
\* main.rs:289-412: permutation generation.

\* a match with a catch-all arm that does not panic
algorithm_known_any(comm_algorithm) == TRUE

\* main.rs:304-314: the arms of `match comm_algorithm` that do not panic
algorithm_known(comm_algorithm) == comm_algorithm \in {"binary-tree", "ring"}

\* chunk lists where ring gets a third chunk count
msccl_potential_chunks_wide(comm_algorithm) ==
    CASE comm_algorithm = "binary-tree" -> <<1, 2, 4, 8, 16>>
      [] comm_algorithm = "ring"        -> <<1, 2, 4>>
      [] OTHER                          -> <<>>

\* main.rs:305 and 308, first component of the pair
msccl_potential_chunks(comm_algorithm) ==
    CASE comm_algorithm = "binary-tree" -> <<1, 2, 4, 8, 16>>
      [] comm_algorithm = "ring"        -> <<1, 2>>
      [] OTHER                          -> <<>>

\* main.rs:305 and 308, second component of the pair
msccl_potential_channels(comm_algorithm) ==
    CASE comm_algorithm = "binary-tree" -> <<4, 8, 16>>
      [] comm_algorithm = "ring"        -> <<4, 8, 16>>
      [] OTHER                          -> <<>>

\* main.rs:209
num_gpus == num_nodes * gpus_per_node

\* main.rs:331 (and main.rs:461 for a blacklist entry)
XmlPath(name) == Join("MSCCL_XMLS", name)

\* main.rs:337, `xml_file.exists()`
xml_exists(xml_file) == xml_file \notin missing_xmls

\* a build where a missing file is only ever warned about
missing_xml_warns == FALSE

\* main.rs:341-342: without the no_check_paths feature a missing file panics
missing_xml_panics == ~no_check_paths

\* main.rs:348-390: the fields of MscclExperimentParams that differ between
\* descriptors or enter a file name
MscclExperimentParams(t, xml_file) ==
    [executable |-> Join("NCCL_TESTS_HOME", t.collective_exe),
     algorithm |-> t.comm_algorithm, ms_xml_file |-> xml_file,
     ms_channels |-> t.msccl_channels, ms_chunks |-> t.msccl_chunks,
     gpu_as_node |-> t.gpu_as_node, num_nodes |-> num_nodes, total_gpus |-> num_gpus,
     buffer_size |-> t.buffer_size, nc_collective |-> t.collective,
     nc_op |-> t.reduction_op, nc_dtype |-> t.data_type]

\* The position of the loop nest of main.rs:289-412. level names the loop whose
\* next iteration is due: "collective" (main.rs:289, iteration c), "algorithm"
\* (main.rs:301, iteration a, within iteration m of the buffer-size, data-type
\* and reduction-op loops) or "tuple" (main.rs:319, iteration t of the chunk,
\* channel and gpu_as_node loops). m and t count the iterations of three
\* nested loops each, in iteration order.
GenPos(level, c, m, a, t) == [level |-> level, c |-> c, m |-> m, a |-> a, t |-> t]

\* iterations of the loops of main.rs:298-300 within one collective
NumOuter == Len(buffer_sizes) * Len(data_types) * Len(reduction_ops)

\* iterations of the loops of main.rs:317-319 within one algorithm
NumTuples(comm_algorithm) ==
    Len(msccl_potential_chunks(comm_algorithm))
    * Len(msccl_potential_channels(comm_algorithm)) * Len(gpus_as_nodes)

\* main.rs:298-300: buffer_size is the outermost of the three loops,
\* reduction_op the innermost
buffer_size_at(m) == buffer_sizes[((m - 1) \div (Len(data_types) * Len(reduction_ops))) + 1]

data_type_at(m) == data_types[(((m - 1) \div Len(reduction_ops)) % Len(data_types)) + 1]

reduction_op_at(m) == reduction_ops[((m - 1) % Len(reduction_ops)) + 1]

\* a loop nest in which msccl_chunks is the innermost loop
msccl_chunks_innermost(comm_algorithm, t) ==
    msccl_potential_chunks(comm_algorithm)[
        ((t - 1) % Len(msccl_potential_chunks(comm_algorithm))) + 1]

\* main.rs:317-319: msccl_chunks is the outermost of the three loops,
\* gpu_as_node the innermost
msccl_chunks_at(comm_algorithm, t) ==
    msccl_potential_chunks(comm_algorithm)[
        ((t - 1) \div (Len(msccl_potential_channels(comm_algorithm)) * Len(gpus_as_nodes))) + 1]

msccl_channels_at(comm_algorithm, t) ==
    msccl_potential_channels(comm_algorithm)[
        (((t - 1) \div Len(gpus_as_nodes)) % Len(msccl_potential_channels(comm_algorithm))) + 1]

gpu_as_node_at(t) == gpus_as_nodes[((t - 1) % Len(gpus_as_nodes)) + 1]

\* the loop variables at a position of level "tuple"
TupleAt(pos) ==
    [collective |-> collectives[pos.c],
     collective_exe |-> collective_to_test_exe(collectives[pos.c]).val,
     buffer_size |-> buffer_size_at(pos.m), data_type |-> data_type_at(pos.m),
     reduction_op |-> reduction_op_at(pos.m), comm_algorithm |-> comm_algorithms[pos.a],
     msccl_chunks |-> msccl_chunks_at(comm_algorithms[pos.a], pos.t),
     msccl_channels |-> msccl_channels_at(comm_algorithms[pos.a], pos.t),
     gpu_as_node |-> gpu_as_node_at(pos.t)]

\* the position at which iteration a of the algorithm loop is due within (c, m);
\* past the last algorithm, the enclosing loops advance
AlgorithmPos(c, m, a) ==
    IF NumOuter = 0 \/ Len(comm_algorithms) = 0 THEN GenPos("collective", c + 1, 1, 1, 1)
    ELSE IF a <= Len(comm_algorithms) THEN GenPos("algorithm", c, m, a, 1)
    ELSE IF m < NumOuter THEN GenPos("algorithm", c, m + 1, 1, 1)
    ELSE GenPos("collective", c + 1, 1, 1, 1)

\* the position at which iteration t of the tuple loops is due within (c, m, a)
TuplePos(c, m, a, t) ==
    IF t <= NumTuples(comm_algorithms[a]) THEN GenPos("tuple", c, m, a, t)
    ELSE AlgorithmPos(c, m, a + 1)

----------------------------------------------------------------------------
\* Inputs.

CollectiveIds == {"all-reduce", "nonesuch"}

\* "binomial-tree" is commented out at main.rs:240: params_to_xml knows it,
\* the match of main.rs:304 does not
AlgorithmIds == {"binary-tree", "ring", "binomial-tree"}

NodeCounts == {4}

GpusPerNode == {8}

\* lines an external process may print on stdout: a 13-column table row or a
\* log line
StdoutLines == {ScenarioA, ScenarioB}

\* what res.wait() may return: exit with a code, or termination by a signal
\* (status.code() is then None)
ExitStatuses == {<<"exited", 0>>, <<"exited", 1>>, <<"signaled", 9>>}

NoStatus == <<"none", 0>>

\* extension of the result table of spec.md section 6; the harness itself
\* names only "log" and "stderr" files (main.rs:453, 456)
ResultTableExt == "csv"

\* an all-reduce descriptor as main.rs:348 builds it
AllReduceParams(algo, nodes, gpus, channels, chunks) ==
    [executable |-> Join("NCCL_TESTS_HOME", "all_reduce_perf"), algorithm |-> algo,
     ms_xml_file |-> XmlPath(params_to_xml("all-reduce", algo, nodes, gpus, channels,
                                           chunks, FALSE).val),
     ms_channels |-> channels, ms_chunks |-> chunks, gpu_as_node |-> FALSE,
     num_nodes |-> nodes, total_gpus |-> gpus, buffer_size |-> 2,
     nc_collective |-> "all-reduce", nc_op |-> "sum", nc_dtype |-> "float"]

\* XML files that may be missing: the first and the last file each algorithm
\* asks for
MissingCandidates(nodes, gpus) ==
    {AllReduceParams("ring", nodes, gpus, 4, 1).ms_xml_file,
     AllReduceParams("ring", nodes, gpus, 16, 2).ms_xml_file,
     AllReduceParams("binary-tree", nodes, gpus, 4, 1).ms_xml_file,
     AllReduceParams("binary-tree", nodes, gpus, 16, 16).ms_xml_file}

\* blacklist entries: the first two of main.rs:277-279
BlacklistCandidates(nodes, gpus) ==
    {params_to_xml("all-reduce", "ring", nodes, gpus, 4, 2, FALSE).val,
     params_to_xml("all-reduce", "ring", nodes, gpus, 8, 2, FALSE).val}

OutputPath(name) == Join("EXPERIMENTS_OUTPUT_DIR", name)

\* files that may be in the output directory at start: the log of the first
\* attempt, the log of the second attempt of a descriptor in BlacklistCandidates,
\* and a result table
FileCandidates(nodes, gpus) ==
    {OutputPath(exp_params_to_output_filename(
        AllReduceParams("ring", nodes, gpus, 4, 1), 0, "log")),
     OutputPath(exp_params_to_output_filename(
        AllReduceParams("ring", nodes, gpus, 4, 2), 1, "log")),
     OutputPath(exp_params_to_output_filename(
        AllReduceParams("ring", nodes, gpus, 8, 1), 0, ResultTableExt))}

\* Any dimension lists and any XML directory, under the policies main.rs
\* ships: empty blacklist (main.rs:275), exit codes ignored (main.rs:515),
\* SKIP_FINISHED unset.
SweepInputs ==
    /\ collectives \in SeqsUpTo(CollectiveIds, MaxIds)
    /\ comm_algorithms \in SeqsUpTo(AlgorithmIds, MaxIds)
    /\ no_check_paths \in BOOLEAN
    /\ missing_xmls \in SubsetsUpTo(MissingCandidates(num_nodes, num_gpus), MaxMissing)
    /\ blacklist = <<>>
    /\ skip_finished = FALSE
    /\ ignore_error_status_codes = TRUE
    /\ files = {}

\* Any blacklist, policy flags and output directory, for the all-reduce sweep
\* of the ring algorithm with every XML file present.
PolicyInputs ==
    /\ collectives = <<"all-reduce">>
    /\ comm_algorithms = <<"ring">>
    /\ no_check_paths = FALSE
    /\ missing_xmls = {}
    /\ blacklist \in SeqsUpTo(BlacklistCandidates(num_nodes, num_gpus), MaxBlacklist)
    /\ skip_finished \in BOOLEAN
    /\ ignore_error_status_codes \in BOOLEAN
    /\ files \in SubsetsUpTo(FileCandidates(num_nodes, num_gpus), MaxFiles)

\* main.rs:285-286, 419: main before the generation loops
Start ==
    /\ pc = "generate"
    /\ gen_pos = GenPos("collective", 1, 1, 1, 1)
    /\ experiment_descriptors = <<>>
    /\ progress = 1
    /\ i = 0
    /\ attempts = <<>>
    /\ manifest_collection = <<>>
    /\ report = <<>>
    /\ spawned = 0
    /\ running = {}
    /\ stdout_seen = <<>>
    /\ stderr_seen = 0
    /\ rows = <<>>
    /\ status = NoStatus
    /\ failures = 0
    /\ lines = <<>>
    /\ results = <<>>
    /\ calls = <<>>

Init ==
    /\ num_nodes \in NodeCounts
    /\ gpus_per_node \in GpusPerNode
    /\ data_types = <<"float">>
    /\ reduction_ops = <<"sum">>
    /\ buffer_sizes = <<2>>
    /\ gpus_as_nodes = <<FALSE>>
    /\ (SweepInputs \/ PolicyInputs)
    /\ Start

----------------------------------------------------------------------------
\* Generation actions.

AtGen(level) ==
    /\ pc = "generate"
    /\ gen_pos.level = level
    /\ gen_pos.c <= Len(collectives)

\* a push that leaves out the experiment whose XML file was not found
push_descriptor_if_found(descriptors, experiment, found) ==
    IF found THEN Append(descriptors, experiment) ELSE descriptors

\* main.rs:393, `experiment_descriptors.push(experiment)`: reached whether or
\* not the XML file was found
push_descriptor(descriptors, experiment, found) == Append(descriptors, experiment)

\* main.rs:289-300: collective_to_test_exe(collective) is Ok; the inner loops
\* are entered
GenCollective ==
    /\ AtGen("collective")
    /\ collective_to_test_exe(collectives[gen_pos.c]).ok
    /\ gen_pos' = AlgorithmPos(gen_pos.c, 1, 1)
    /\ UNCHANGED <<parsevars, namevars, config, fsvars, pc, experiment_descriptors, loopvars,
                   manifest_collection, report, procvars>>

\* main.rs:291: collective_to_test_exe(collective)? returns the Err from main
GenCollectiveErr ==
    /\ AtGen("collective")
    /\ ~collective_to_test_exe(collectives[gen_pos.c]).ok
    /\ pc' = "err_exit"
    /\ UNCHANGED <<parsevars, namevars, config, fsvars, genvars, loopvars, manifest_collection, report,
                   procvars>>

\* main.rs:303-317: the match finds the chunk and channel lists
GenAlgorithm ==
    /\ AtGen("algorithm")
    /\ algorithm_known(comm_algorithms[gen_pos.a])
    /\ gen_pos' = TuplePos(gen_pos.c, gen_pos.m, gen_pos.a, 1)
    /\ UNCHANGED <<parsevars, namevars, config, fsvars, pc, experiment_descriptors, loopvars,
                   manifest_collection, report, procvars>>

\* main.rs:313: panic!("[ERROR] Unknown comm_algorithm")
GenAlgorithmPanic ==
    /\ AtGen("algorithm")
    /\ ~algorithm_known(comm_algorithms[gen_pos.a])
    /\ pc' = "panic_gen"
    /\ UNCHANGED <<parsevars, namevars, config, fsvars, genvars, loopvars, manifest_collection, report,
                   procvars>>

\* main.rs:321-329
GenXml ==
    LET tuple == TupleAt(gen_pos)
    IN params_to_xml(tuple.collective, tuple.comm_algorithm, num_nodes, num_gpus,
                     tuple.msccl_channels, tuple.msccl_chunks, tuple.gpu_as_node)

\* main.rs:321-405: the XML file is found, or it is missing and only warned
\* about; the descriptor is pushed
GenTuple ==
    /\ AtGen("tuple")
    /\ GenXml.ok
    /\ xml_exists(XmlPath(GenXml.val)) \/ ~missing_xml_panics
    /\ experiment_descriptors' =
          push_descriptor(experiment_descriptors,
                          MscclExperimentParams(TupleAt(gen_pos), XmlPath(GenXml.val)),
                          xml_exists(XmlPath(GenXml.val)))
    /\ gen_pos' = TuplePos(gen_pos.c, gen_pos.m, gen_pos.a, gen_pos.t + 1)
    /\ UNCHANGED <<parsevars, namevars, config, fsvars, pc, loopvars, manifest_collection, report, procvars>>

\* main.rs:329: params_to_xml(..)? returns the Err from main;
\* main.rs:342: panic!("During permutation generation, XML file not found")
GenTupleFails ==
    /\ AtGen("tuple")
    /\ IF ~GenXml.ok
       THEN pc' = "err_exit"
       ELSE /\ ~xml_exists(XmlPath(GenXml.val))
            /\ missing_xml_panics
            /\ pc' = "panic_gen"
    /\ UNCHANGED <<parsevars, namevars, config, fsvars, genvars, loopvars, manifest_collection, report,
                   procvars>>

\* main.rs:413-423: the loop nest is over; the execution loop starts
GenDone ==
    /\ pc = "generate"
    /\ gen_pos.c > Len(collectives)
    /\ pc' = "exec"
    /\ UNCHANGED <<parsevars, namevars, config, fsvars, genvars, loopvars, manifest_collection, report,
                   procvars>>

----------------------------------------------------------------------------
\* main.rs:423-574: the execution loop, and wrapper.rs:9-156: run_msccl_tests.

InLoop == progress <= Len(experiment_descriptors)

experiment_descriptor == experiment_descriptors[progress]

\* the log file of the first repetition, whatever the repetition
output_path_first_repetition ==
    OutputPath(exp_params_to_output_filename(experiment_descriptor, 0, "log"))

\* main.rs:452-454
output_path == OutputPath(exp_params_to_output_filename(experiment_descriptor, i, "log"))

\* main.rs:455-457
stderr_path == OutputPath(exp_params_to_output_filename(experiment_descriptor, i, "stderr"))

\* main.rs:461 and 468: the blacklist entry names the descriptor's XML file
blacklisted_matches(blacklisted, d) == d.ms_xml_file = XmlPath(blacklisted)

\* main.rs:460-488: one Blacklisted entry for every blacklist element that
\* matches; the `continue` of main.rs:486 continues this for loop
BlacklistEntries(d) ==
    LET hits == SelectSeq(blacklist, LAMBDA b : blacklisted_matches(b, d))
    IN [k \in 1..Len(hits) |-> ManifestEntry(d, "Blacklisted")]

\* an insertion at the front of the manifest
push_entry_front(manifest, entry) == <<entry>> \o manifest

\* Vec::push on the manifest, main.rs:472, 495, 528, 559
push_entry(manifest, entry) == Append(manifest, entry)

\* loops that go on to the next descriptor after every iteration
NextDescriptor == <<progress + 1, 0>>

\* the next (progress, i) of the loops of main.rs:423-424
NextAttempt ==
    IF i + 1 < num_repetitions THEN <<progress, i + 1>> ELSE <<progress + 1, 0>>

\* `continue`, or the end of the loop body
Continue ==
    /\ progress' = NextAttempt[1]
    /\ i' = NextAttempt[2]
    /\ attempts' = attempts
    /\ pc' = "exec"

\* main.rs:491
skips == skip_finished /\ output_path \in files

\* main.rs:424-488: an iteration starts: the paths are computed and the
\* blacklist loop runs to its end
BeginAttempt ==
    /\ pc = "exec"
    /\ InLoop
    /\ manifest_collection' = manifest_collection \o BlacklistEntries(experiment_descriptor)
    /\ pc' = "skip_check"
    /\ stdout_seen' = <<>>
    /\ stderr_seen' = 0
    /\ rows' = <<>>
    /\ status' = NoStatus
    /\ attempts' = Append(attempts, <<progress, i>>)
    /\ UNCHANGED <<parsevars, namevars, config, fsvars, genvars, progress, i, report, spawned, running,
                   failures>>

\* main.rs:491-510
SkipFinished ==
    /\ pc = "skip_check"
    /\ skips
    /\ manifest_collection' =
          push_entry(manifest_collection, ManifestEntry(experiment_descriptor, "Skipped"))
    /\ Continue
    /\ UNCHANGED <<parsevars, namevars, config, fsvars, genvars, report, procvars>>

\* main.rs:512 and wrapper.rs:51-102: the external process is spawned
Spawn ==
    /\ pc = "skip_check"
    /\ ~skips
    /\ spawned' = spawned + 1
    /\ running' = running \cup {<<progress, i>>}
    /\ rows' = <<>>
    /\ pc' = "stdout"
    /\ UNCHANGED <<parsevars, namevars, config, fsvars, genvars, loopvars, manifest_collection, report,
                   stdout_seen, stderr_seen, status, failures>>

\* wrapper.rs:106-113: a stdout line is read and logged; it is not parsed and
\* no row is pushed
ReadStdoutLine ==
    /\ pc = "stdout"
    /\ Len(stdout_seen) < MaxLines
    /\ \E line \in StdoutLines : stdout_seen' = Append(stdout_seen, line)
    /\ UNCHANGED <<parsevars, namevars, config, fsvars, pc, genvars, loopvars, manifest_collection, report,
                   spawned, running, stderr_seen, rows, status, failures>>

\* wrapper.rs:118: stdout reaches end of stream
StdoutEof ==
    /\ pc = "stdout"
    /\ pc' = "stderr"
    /\ UNCHANGED <<parsevars, namevars, config, fsvars, genvars, loopvars, manifest_collection, report,
                   procvars>>

\* wrapper.rs:106: the process neither writes nor closes stdout: lines() never
\* returns
StdoutBlocks ==
    /\ pc = "stdout"
    /\ pc' = "blocked"
    /\ UNCHANGED <<parsevars, namevars, config, fsvars, genvars, loopvars, manifest_collection, report,
                   procvars>>

\* stderr read while stdout is still open
stderr_readable_early == pc \in {"stdout", "stderr"}

\* wrapper.rs:122-123: the stderr loop starts when the stdout loop of
\* wrapper.rs:106-118 has ended
stderr_readable == pc = "stderr"

\* wrapper.rs:123-128
ReadStderrLine ==
    /\ stderr_readable
    /\ stderr_seen < MaxLines
    /\ stderr_seen' = stderr_seen + 1
    /\ UNCHANGED <<parsevars, namevars, config, fsvars, pc, genvars, loopvars, manifest_collection, report,
                   spawned, running, stdout_seen, rows, status, failures>>

\* wrapper.rs:133: stderr reaches end of stream
StderrEof ==
    /\ pc = "stderr"
    /\ pc' = "wait"
    /\ UNCHANGED <<parsevars, namevars, config, fsvars, genvars, loopvars, manifest_collection, report,
                   procvars>>

\* wrapper.rs:123: the process neither writes nor closes stderr: lines() never
\* returns
StderrBlocks ==
    /\ pc = "stderr"
    /\ pc' = "blocked_stderr"
    /\ UNCHANGED <<parsevars, namevars, config, fsvars, genvars, loopvars, manifest_collection, report,
                   procvars>>

\* wrapper.rs:136: the process has closed both streams and never exits: wait()
\* never returns
WaitBlocks ==
    /\ pc = "wait"
    /\ pc' = "blocked_wait"
    /\ UNCHANGED <<parsevars, namevars, config, fsvars, genvars, loopvars, manifest_collection, report,
                   procvars>>

\* ExitStatus::success
success(st) == st = <<"exited", 0>>

\* wrapper.rs:137-155: what run_msccl_tests does with the exit status. With
\* error logging on (the default of env_logger), both arms of wrapper.rs:140
\* evaluate status.code().unwrap(), which panics when a signal ended the process.
run_result(st, ignore) ==
    IF success(st) THEN "Ok"
    ELSE IF st[1] = "signaled" THEN "panic"
    ELSE IF ~ignore THEN "Err"
    ELSE "Ok"

\* a wait that returns without the child having ended
reaped_never(children, child) == children

\* wrapper.rs:136: res.wait() returns when the child has ended
reaped(children, child) == children \ {child}

\* wrapper.rs:136: res.wait() returns st
Waited(st) ==
    /\ pc = "wait"
    /\ st \in ExitStatuses
    /\ ~success(st) => failures < MaxFailures
    /\ status' = st
    /\ running' = reaped(running, <<progress, i>>)
    /\ failures' = IF success(st) THEN failures ELSE failures + 1

\* an entry that depends on the rows returned
ok_result_by_rows(parsed) == IF parsed = <<>> THEN "PartialFailure" ELSE "Success"

\* main.rs:568: the entry of an attempt whose run returned Ok(rows)
ok_result(parsed) == "Success"

\* wrapper.rs:155 and main.rs:520, 547-573: Ok(rows); the entry is Success
RunOk ==
    /\ \E st \in ExitStatuses :
          /\ Waited(st)
          /\ run_result(st, ignore_error_status_codes) = "Ok"
    /\ manifest_collection' =
          push_entry(manifest_collection,
                     ManifestEntry(experiment_descriptor, ok_result(rows)))
    /\ Continue
    /\ UNCHANGED <<parsevars, namevars, config, fsvars, genvars, report, spawned, stdout_seen, stderr_seen,
                   rows>>

\* wrapper.rs:145 and main.rs:521-544: Err; the entry is Failure
RunErr ==
    /\ \E st \in ExitStatuses :
          /\ Waited(st)
          /\ run_result(st, ignore_error_status_codes) = "Err"
    /\ manifest_collection' =
          push_entry(manifest_collection, ManifestEntry(experiment_descriptor, "Failure"))
    /\ Continue
    /\ UNCHANGED <<parsevars, namevars, config, fsvars, genvars, report, spawned, stdout_seen, stderr_seen,
                   rows>>

\* wrapper.rs:143 and 149: status.code().unwrap() panics
RunPanic ==
    /\ \E st \in ExitStatuses :
          /\ Waited(st)
          /\ run_result(st, ignore_error_status_codes) = "panic"
    /\ pc' = "panic_run"
    /\ UNCHANGED <<parsevars, namevars, config, fsvars, genvars, loopvars, manifest_collection, report,
                   spawned, stdout_seen, stderr_seen, rows>>

\* main.rs:576-580: both loops are over; the manifest is printed
Report ==
    /\ pc = "exec"
    /\ ~InLoop
    /\ report' = Append(report, pretty_print_result_manifest(manifest_collection))
    /\ pc' = "done"
    /\ UNCHANGED <<parsevars, namevars, config, fsvars, genvars, loopvars, manifest_collection, procvars>>

----------------------------------------------------------------------------

Next ==
    \/ GenCollective
    \/ GenCollectiveErr
    \/ GenAlgorithm
    \/ GenAlgorithmPanic
    \/ GenTuple
    \/ GenTupleFails
    \/ GenDone
    \/ BeginAttempt
    \/ SkipFinished
    \/ Spawn
    \/ ReadStdoutLine
    \/ StdoutEof
    \/ StdoutBlocks
    \/ ReadStderrLine
    \/ StderrEof
    \/ StderrBlocks
    \/ WaitBlocks
    \/ RunOk
    \/ RunErr
    \/ RunPanic
    \/ Report

Spec == Init /\ [][Next]_vars

\* main and run_msccl_tests are one sequential thread: a step that can be taken
\* is taken. A stream that is never closed and a wait that never returns are
\* steps of their own (StdoutBlocks, StderrBlocks, WaitBlocks), after which no
\* step can be taken.
LiveSpec == Init /\ [][Next]_vars /\ WF_vars(Next)

----------------------------------------------------------------------------
\* Generation alone, over configurations in which every dimension list may
\* have several elements, every identifier is recognized and every XML file
\* exists.

GenCollectiveIds == {"all-reduce", "all-gather"}

GenAlgorithmIds == {"binary-tree", "ring"}

GenInputs ==
    /\ collectives \in SeqsUpTo(GenCollectiveIds, MaxIds)
    /\ comm_algorithms \in SeqsUpTo(GenAlgorithmIds, MaxIds)
    /\ buffer_sizes \in {<<2>>, <<2, 4>>}
    /\ \E several \in BOOLEAN :
          /\ data_types = IF several THEN <<"float", "int32">> ELSE <<"float">>
          /\ reduction_ops = IF several THEN <<"sum", "max">> ELSE <<"sum">>
    /\ gpus_as_nodes \in {<<FALSE>>, <<TRUE, FALSE>>}
    /\ no_check_paths \in BOOLEAN
    /\ missing_xmls = {}
    /\ blacklist = <<>>
    /\ skip_finished = FALSE
    /\ ignore_error_status_codes = TRUE
    /\ files = {}

GenInit ==
    /\ num_nodes \in NodeCounts
    /\ gpus_per_node \in GpusPerNode
    /\ GenInputs
    /\ Start

GenNext ==
    \/ GenCollective
    \/ GenAlgorithm
    \/ GenTuple
    \/ GenDone

GenSpec == GenInit /\ [][GenNext]_vars

----------------------------------------------------------------------------
\* Rows and the lines built from them.

\* u64 as Display prints it
format_u64(v) == v

\* i64 as Display prints it
format_i64(v) == (IF v.neg THEN <<"-">> ELSE <<>>) \o v.digits

zeros(n) == [k \in 1..n |-> "0"]

\* f64 as Display prints it: the shortest decimal that denotes the value,
\* without an exponent
format_f64(v) ==
    LET sign == IF v.neg THEN <<"-">> ELSE <<>>
        n == Len(v.mant)
        k == 0 - v.exp
    IN CASE v.class = "nan" -> <<"N", "a", "N">>
         [] v.class = "inf" -> sign \o <<"i", "n", "f">>
         [] OTHER ->
              IF v.exp >= 0 THEN sign \o v.mant \o zeros(v.exp)
              ELSE IF n > k
              THEN sign \o SubSeq(v.mant, 1, n - k) \o <<".">> \o SubSeq(v.mant, n - k + 1, n)
              ELSE sign \o <<"0", ".">> \o zeros(k - n) \o v.mant

\* the line built from the fields of a row in column order
RowToLine(row) ==
    unwords(<<format_u64(row.size), format_u64(row.count), row.dtype, row.redop,
              format_i64(row.root), format_f64(row.oop_time), format_f64(row.oop_alg_bw),
              format_f64(row.oop_bus_bw), row.oop_num_wrong, format_f64(row.ip_time),
              format_f64(row.ip_alg_bw), format_f64(row.ip_bus_bw), row.ip_num_wrong>>)

\* a finite f64: mant * 10^exp
Finite(neg, mant, exp) == [class |-> "finite", neg |-> neg, mant |-> mant, exp |-> exp]

\* 0.123, 1, 50, 0.05, 12.5 and -0.5
FloatValues ==
    {Finite(FALSE, <<"1", "2", "3">>, 0 - 3), Finite(FALSE, <<"1">>, 0),
     Finite(FALSE, <<"5">>, 1), Finite(FALSE, <<"5">>, 0 - 2),
     Finite(FALSE, <<"1", "2", "5">>, 0 - 1), Finite(TRUE, <<"5">>, 0 - 1)}

\* rows with every field valid; the reduction op may be empty
ValidRows ==
    {[size |-> size, count |-> <<"2", "6", "2", "1", "4", "4">>, dtype |-> <<"f", "l", "o", "a", "t">>,
      redop |-> op, root |-> root,
      oop_time |-> time, oop_alg_bw |-> Finite(FALSE, <<"4", "5", "6">>, 0 - 3),
      oop_bus_bw |-> Finite(FALSE, <<"7", "8", "9">>, 0 - 3), oop_num_wrong |-> wrong,
      ip_time |-> Finite(FALSE, <<"1", "1", "1">>, 0 - 3),
      ip_alg_bw |-> Finite(FALSE, <<"2", "2", "2">>, 0 - 3),
      ip_bus_bw |-> Finite(FALSE, <<"3", "3", "3">>, 0 - 3), ip_num_wrong |-> <<"0">>] :
        size \in {<<"1", "0", "4", "8", "5", "7", "6">>, <<"0">>, u64_max},
        op \in {<<"s", "u", "m">>, <<>>},
        root \in {[neg |-> TRUE, digits |-> <<"1">>], [neg |-> FALSE, digits |-> <<"0">>],
                  [neg |-> TRUE, digits |-> i64_min_magnitude]},
        time \in FloatValues,
        wrong \in {<<"0">>, <<"N", "/", "A">>}}

InputLines ==
    {ScenarioA, ScenarioB} \cup ColumnVariants \cup ShapeVariants \cup CountVariants
        \cup {RowToLine(row) : row \in ValidRows}

----------------------------------------------------------------------------
\* parse_line applied to the lines of a stream, a chunk of lines at a time.

\* main is not running
Idle ==
    /\ collectives = <<>> /\ comm_algorithms = <<>> /\ data_types = <<>>
    /\ reduction_ops = <<>> /\ buffer_sizes = <<>> /\ gpus_as_nodes = <<>>
    /\ num_nodes \in NodeCounts /\ gpus_per_node \in GpusPerNode
    /\ no_check_paths = FALSE /\ blacklist = <<>> /\ skip_finished = FALSE
    /\ ignore_error_status_codes = TRUE
    /\ missing_xmls = {} /\ files = {}
    /\ gen_pos = GenPos("collective", 1, 1, 1, 1)
    /\ experiment_descriptors = <<>>
    /\ progress = 1 /\ i = 0 /\ attempts = <<>>
    /\ manifest_collection = <<>> /\ report = <<>>
    /\ spawned = 0 /\ running = {} /\ stdout_seen = <<>> /\ stderr_seen = 0
    /\ rows = <<>> /\ status = NoStatus /\ failures = 0

ParseInit ==
    /\ Idle
    /\ pc = "parse"
    /\ lines \in {<<line>> : line \in InputLines} \cup SeqsUpTo(StreamLines, MaxStream)
    /\ results = <<>>
    /\ calls = <<>>

\* the next chunk of the stream is classified, line by line
Classify ==
    /\ pc = "parse"
    /\ \E n \in 1..(Len(lines) - Len(results)) :
          results' = results \o [k \in 1..n |-> parse_line(lines[Len(results) + k])]
    /\ UNCHANGED <<lines, namevars, config, fsvars, pc, genvars, loopvars,
                   manifest_collection, report, procvars>>

ParseNext == Classify

ParseSpec == ParseInit /\ [][ParseNext]_vars

----------------------------------------------------------------------------
\* The naming functions applied to descriptors, a call at a time.

\* a descriptor as main.rs:348-390 builds it from the loop variables
Descriptor(collective, algo, nodes, gpus, channels, chunks, buffer, flag, op, dtype) ==
    [executable |-> Join("NCCL_TESTS_HOME", collective_to_test_exe(collective).val),
     algorithm |-> algo,
     ms_xml_file |-> XmlPath(params_to_xml(collective, algo, nodes, gpus, channels,
                                           chunks, flag).val),
     ms_channels |-> channels, ms_chunks |-> chunks, gpu_as_node |-> flag,
     num_nodes |-> nodes, total_gpus |-> gpus, buffer_size |-> buffer,
     nc_collective |-> collective, nc_op |-> op, nc_dtype |-> dtype]

\* One descriptor, the descriptors that differ from it in one dimension, and
\* the one that differs from it in both the reduction op and the data type.
NameParams ==
    {Descriptor("all-reduce", "ring", 4, 32, 4, 1, 2, FALSE, "sum", "float")}
    \cup {Descriptor(collective, "ring", 4, 32, 4, 1, 2, FALSE, "sum", "float") :
             collective \in {"all-gather", "reduce", "reduce-scatter"}}
    \cup {Descriptor("all-reduce", algo, 4, 32, 4, 1, 2, FALSE, "sum", "float") :
             algo \in {"binary-tree", "recursive-halving-doubling"}}
    \cup {Descriptor("all-reduce", "ring", 8, 32, 4, 1, 2, FALSE, "sum", "float"),
          Descriptor("all-reduce", "ring", 4, 64, 4, 1, 2, FALSE, "sum", "float"),
          Descriptor("all-reduce", "ring", 4, 32, 8, 1, 2, FALSE, "sum", "float"),
          Descriptor("all-reduce", "ring", 4, 32, 4, 2, 2, FALSE, "sum", "float"),
          Descriptor("all-reduce", "ring", 4, 32, 4, 1, 4, FALSE, "sum", "float"),
          Descriptor("all-reduce", "ring", 4, 32, 4, 1, 2, TRUE, "sum", "float"),
          Descriptor("all-reduce", "ring", 4, 32, 4, 1, 2, FALSE, "max", "float"),
          Descriptor("all-reduce", "ring", 4, 32, 4, 1, 2, FALSE, "sum", "int32"),
          Descriptor("all-reduce", "ring", 4, 32, 4, 1, 2, FALSE, "max", "int32")}

\* the extensions main.rs:453 and main.rs:456 pass
OutputExtensions == {"log", "stderr"}

NameInit ==
    /\ Idle
    /\ pc = "name"
    /\ lines = <<>>
    /\ results = <<>>
    /\ calls = <<>>

\* main.rs:452-457: the name of the log or of the stderr file of a repetition
CallOutputFilename ==
    /\ pc = "name"
    /\ Len(calls) < MaxCalls
    /\ \E params \in NameParams, iteration \in 0..(num_repetitions - 1),
          extension \in OutputExtensions :
          calls' = Append(calls,
                          [fn |-> "exp_params_to_output_filename", params |-> params,
                           iteration |-> iteration, extension |-> extension,
                           name |-> exp_params_to_output_filename(params, iteration,
                                                                  extension)])
    /\ UNCHANGED <<parsevars, config, fsvars, pc, genvars, loopvars, manifest_collection,
                   report, procvars>>

\* main.rs:321-331: the name of the XML file of a descriptor
CallParamsToXml ==
    /\ pc = "name"
    /\ Len(calls) < MaxCalls
    /\ \E params \in NameParams :
          calls' = Append(calls,
                          [fn |-> "params_to_xml", params |-> params,
                           iteration |-> 0, extension |-> "xml",
                           name |-> params_to_xml(params.nc_collective, params.algorithm,
                                                  params.num_nodes, params.total_gpus,
                                                  params.ms_channels, params.ms_chunks,
                                                  params.gpu_as_node).val])
    /\ UNCHANGED <<parsevars, config, fsvars, pc, genvars, loopvars, manifest_collection,
                   report, procvars>>

NameNext == CallOutputFilename \/ CallParamsToXml

NameSpec == NameInit /\ [][NameNext]_vars

----------------------------------------------------------------------------
\* Vocabulary of the properties.

IsPrefix(s, t) == Len(s) <= Len(t) /\ SubSeq(t, 1, Len(s)) = s

\* main is inside run_msccl_tests: the external process of the current attempt
\* has been spawned
RunPcs == {"stdout", "stderr", "wait", "blocked", "blocked_stderr", "blocked_wait"}

\* main never got past permutation generation
GenerationPcs == {"generate", "err_exit", "panic_gen"}

\* the XML file of descriptor d is named by an entry of the denylist
Denylisted(d) == \E k \in 1..Len(blacklist) : d.ms_xml_file = XmlPath(blacklist[k])

\* entry e carries the identifying parameters of descriptor d
EntryOf(e, d) ==
    /\ e.collective = d.nc_collective
    /\ e.op = d.nc_op
    /\ e.dtype = d.nc_dtype
    /\ e.algorithm = d.algorithm
    /\ e.num_channels = d.ms_channels
    /\ e.num_chunks = d.ms_chunks
    /\ e.num_gpus = d.total_gpus
    /\ e.buffer_size_factor = d.buffer_size

\* attempts before the current one, in generation order
AttemptsBefore == (progress - 1) * num_repetitions + i

\* the identifiers the program accepts
RecognizedCollectives ==
    {"all-reduce", "all-gather", "all-to-all", "broadcast", "gather", "hypercube",
     "reduce", "reduce-scatter", "scatter", "sendrecv"}

RecognizedAlgorithms == {"binary-tree", "ring"}

\* the (channel, chunk) pairs allowed for an algorithm
AllowedPairs(algorithm) ==
    CASE algorithm = "binary-tree" -> {4, 8, 16} \X {1, 2, 4, 8, 16}
      [] algorithm = "ring"        -> {4, 8, 16} \X {1, 2}
      [] OTHER                     -> {}

\* the companion artifacts of the candidate tuples: every combination of the
\* dimension lists with an allowed (channel, chunk) pair
CandidateXmls ==
    IF NumOuter = 0 THEN {}
    ELSE {XmlPath(params_to_xml(c, a, num_nodes, num_gpus, p[1], p[2], g).val) :
             <<c, a, p, g>> \in
                {<<c, a, p, g>> \in (Range(collectives) \cap RecognizedCollectives)
                                    \X (Range(comm_algorithms) \cap RecognizedAlgorithms)
                                    \X ({4, 8, 16} \X {1, 2, 4, 8, 16})
                                    \X Range(gpus_as_nodes) :
                    p \in AllowedPairs(a)}}

----------------------------------------------------------------------------
\* C1. Every (descriptor, repetition) attempt appends exactly one manifest
\* entry, whatever its outcome and whatever the blacklist holds: between two
\* attempts, and after the sweep, the manifest holds one entry per attempt made.
C1_OneEntryPerAttempt ==
    pc \in {"exec", "done"} => Len(manifest_collection) = AttemptsBefore

\* C2. An attempt whose XML path equals a denylist entry is short-circuited:
\* neither the skip-finished check nor the external run is reached for it, and
\* no outcome other than Blacklisted is recorded for its descriptor.
C2_BlacklistShortCircuits ==
    /\ (pc \in {"skip_check"} \cup RunPcs) => ~Denylisted(experiment_descriptor)
    /\ \A k \in 1..Len(manifest_collection) :
         \A n \in 1..Len(experiment_descriptors) :
            ( /\ EntryOf(manifest_collection[k], experiment_descriptors[n])
              /\ Denylisted(experiment_descriptors[n]) )
            => manifest_collection[k].overall_result = "Blacklisted"

\* the result table of the current attempt (spec.md, sections 4.2 and 6)
ResultTablePath ==
    OutputPath(exp_params_to_output_filename(experiment_descriptor, i, ResultTableExt))

\* the log file of the current attempt
LogPath == OutputPath(exp_params_to_output_filename(experiment_descriptor, i, "log"))

\* main, between the blacklist loop and the skip check, skips the attempt: it
\* appends Skipped, starts no process and goes on to the next attempt
SkipsAttempt ==
    /\ manifest_collection' =
          Append(manifest_collection, ManifestEntry(experiment_descriptor, "Skipped"))
    /\ spawned' = spawned
    /\ pc' = "exec"
    /\ <<progress', i'>> = NextAttempt

\* C3 as stated. With skip-finished enabled, an attempt that is not blacklisted
\* and whose result table exists is Skipped and never run: the external process
\* is never alive for it.
C3_SkipByResultTable ==
    (pc \in RunPcs /\ skip_finished /\ ~Denylisted(experiment_descriptor))
    => ResultTablePath \notin files

\* C3 as amended. With skip-finished enabled, an attempt that is not blacklisted
\* and whose log file exists goes directly to Skipped and is never run.
C3_SkipByLogFile ==
    [][(pc = "skip_check" /\ skip_finished /\ ~Denylisted(experiment_descriptor)
            /\ LogPath \in files)
        => SkipsAttempt]_vars

C3_Witness ==
    /\ pc = "exec"
    /\ skip_finished
    /\ blacklist = <<>>
    /\ spawned = 0
    /\ Len(manifest_collection) = 1
    /\ manifest_collection[1].overall_result = "Skipped"

\* the last attempt was run and its entry has been appended
AttemptWasRun == pc \in {"exec", "done"} /\ status # NoStatus

\* C4. An attempt that was run is recorded as Success only if the process
\* exited successfully (or its exit status is ignored) and at least one row was
\* parsed from its output.
C4_SuccessNeedsRows ==
    (AttemptWasRun /\ Last(manifest_collection).overall_result = "Success")
    => /\ success(status) \/ ignore_error_status_codes
       /\ Len(rows) >= 1

\* C5. When the external process ends with a status that is not success, the
\* attempt gets one entry, Failure with the ignore-exit-code policy off and
\* Success (never Failure) with it on, and in both cases main goes on to the
\* next attempt: the sweep is not aborted.
C5_NonzeroExit ==
    [][(pc = "wait" /\ status' # NoStatus /\ ~success(status'))
        => /\ manifest_collection' =
                 Append(manifest_collection,
                        ManifestEntry(experiment_descriptor,
                                      IF ignore_error_status_codes THEN "Success"
                                      ELSE "Failure"))
           /\ pc' = "exec"
           /\ <<progress', i'>> = NextAttempt]_vars

\* generation ran through all its loops and main went on to the execution loop
GenerationCompleted == pc \notin GenerationPcs

\* C6. The manifest is append-only and in generation order: a step leaves the
\* earlier entries in place, the entries it adds belong to the descriptor of the
\* current attempt, the attempts advance in (descriptor, repetition) order over
\* a descriptor list that no longer changes, and the report is rendered once,
\* after the last attempt, over all the entries in manifest order.
C6_AppendOnlyInOrder ==
    [][/\ IsPrefix(manifest_collection, manifest_collection')
       /\ \A k \in (Len(manifest_collection) + 1)..Len(manifest_collection') :
             /\ pc \notin GenerationPcs
             /\ InLoop
             /\ EntryOf(manifest_collection'[k], experiment_descriptor)
       /\ \/ progress' > progress
          \/ progress' = progress /\ i' >= i
       /\ (pc \notin GenerationPcs) => experiment_descriptors' = experiment_descriptors
       /\ (report' # report)
          => /\ pc = "exec" /\ ~InLoop
             /\ report = <<>>
             /\ manifest_collection' = manifest_collection
             /\ Len(report') = 1
             /\ Len(report'[1]) = Len(manifest_collection) + 1
             /\ \A k \in 1..Len(manifest_collection) :
                   report'[1][k + 1] =
                       pretty_print_result_manifest(<<manifest_collection[k]>>)[2]
             /\ pc' = "done"]_vars

C6_Witness ==
    /\ pc = "done"
    /\ Len(report) = 1
    /\ Len(experiment_descriptors) >= 2
    /\ Len(manifest_collection) >= 2 * num_repetitions
    /\ \E k \in 1..Len(manifest_collection) :
          manifest_collection[k].overall_result # "Success"

\* C7. Every generated descriptor has a (channel, chunk) pair allowed for its
\* algorithm.
C7_AllowedChannelChunk ==
    \A k \in 1..Len(experiment_descriptors) :
        <<experiment_descriptors[k].ms_channels, experiment_descriptors[k].ms_chunks>>
            \in AllowedPairs(experiment_descriptors[k].algorithm)

C7_Witness ==
    /\ pc = "exec"
    /\ \E k, n \in 1..Len(experiment_descriptors) :
          /\ experiment_descriptors[k].algorithm = "binary-tree"
          /\ experiment_descriptors[k].ms_chunks = 16
          /\ experiment_descriptors[n].algorithm = "ring"
          /\ experiment_descriptors[n].ms_chunks = 2

\* C8. In strict mode, when the XML file of some candidate tuple is missing,
\* main never gets past generation: no process is started, no manifest entry is
\* appended and nothing is reported, wherever the tuple lies in the enumeration.
C8_StrictMissingXmlFails ==
    (~no_check_paths /\ CandidateXmls \cap missing_xmls # {})
    => /\ ~GenerationCompleted
       /\ manifest_collection = <<>>
       /\ spawned = 0
       /\ report = <<>>

C8_Witness ==
    /\ pc = "panic_gen"
    /\ ~no_check_paths
    /\ Range(collectives) \subseteq RecognizedCollectives
    /\ Range(comm_algorithms) \subseteq RecognizedAlgorithms
    /\ CandidateXmls \cap missing_xmls # {}
    /\ Len(experiment_descriptors) >= 1
    /\ spawned = 0

\* C9 as stated. In relaxed mode no descriptor is created for a candidate tuple
\* whose XML file is missing.
C9_MissingTupleOmitted ==
    no_check_paths
    => \A k \in 1..Len(experiment_descriptors) :
          experiment_descriptors[k].ms_xml_file \notin missing_xmls

\* C9 as amended. In relaxed mode a missing XML file changes nothing but a
\* warning: once generation is over there is a descriptor for every candidate
\* tuple, those with a missing XML file included, and at the end of the sweep
\* every descriptor has its manifest entries.
C9_MissingTupleKept ==
    (no_check_paths /\ pc \notin GenerationPcs)
    => /\ {experiment_descriptors[k].ms_xml_file : k \in 1..Len(experiment_descriptors)}
             = CandidateXmls
       /\ pc = "done"
          => \A k \in 1..Len(experiment_descriptors) :
                \E n \in 1..Len(manifest_collection) :
                    EntryOf(manifest_collection[n], experiment_descriptors[k])

C9_Witness ==
    /\ pc = "done"
    /\ no_check_paths
    /\ spawned >= 1
    /\ \E k \in 1..Len(experiment_descriptors) :
          experiment_descriptors[k].ms_xml_file \in missing_xmls

\* a collective or an algorithm of the configuration is not recognized
HasUnknownId ==
    \/ Range(collectives) \ RecognizedCollectives # {}
    \/ Range(comm_algorithms) \ RecognizedAlgorithms # {}

\* the loops of generation get to an unrecognized identifier: an unknown
\* collective is met by the outermost loop; an unknown algorithm only when the
\* loops around the algorithm loop all have an iteration
UnknownIdReached ==
    \/ Range(collectives) \ RecognizedCollectives # {}
    \/ /\ Range(comm_algorithms) \ RecognizedAlgorithms # {}
       /\ Len(collectives) > 0
       /\ NumOuter > 0

\* C10 as stated. With an unrecognized collective or algorithm in the
\* configuration, at any position and whatever the other lists hold, main never
\* completes generation, executes no attempt and appends no manifest entry.
C10_UnknownIdAborts ==
    HasUnknownId
    => /\ ~GenerationCompleted
       /\ manifest_collection = <<>>
       /\ spawned = 0

\* C10 as amended. With an unrecognized collective or algorithm in the
\* configuration no attempt is executed and no manifest entry is appended, and
\* main never completes generation when its loops get to the identifier: always
\* for a collective, and for an algorithm when the lists looped over around the
\* algorithm list are not empty.
C10_UnknownIdNoExecution ==
    HasUnknownId
    => /\ manifest_collection = <<>>
       /\ spawned = 0
       /\ UnknownIdReached => ~GenerationCompleted

C10_Witness ==
    /\ pc = "panic_gen"
    /\ missing_xmls = {}
    /\ Range(collectives) \subseteq RecognizedCollectives
    /\ Len(comm_algorithms) = 2
    /\ comm_algorithms[1] \in RecognizedAlgorithms
    /\ comm_algorithms[2] \notin RecognizedAlgorithms
    /\ Len(experiment_descriptors) >= 1

RECURSIVE Flatten(_)
Flatten(ss) == IF ss = <<>> THEN <<>> ELSE Head(ss) \o Flatten(Tail(ss))

\* the chunk counts and the channel counts allowed for an algorithm, ascending
AllowedChunks(algorithm) ==
    CASE algorithm = "binary-tree" -> <<1, 2, 4, 8, 16>>
      [] algorithm = "ring"        -> <<1, 2>>
      [] OTHER                     -> <<>>

AllowedChannels(algorithm) ==
    CASE algorithm = "binary-tree" -> <<4, 8, 16>>
      [] algorithm = "ring"        -> <<4, 8, 16>>
      [] OTHER                     -> <<>>

\* the descriptor of one tuple of dimension values
ExpectedDescriptor(collective, buffer_size, data_type, reduction_op, algorithm, chunks, channels, gpu_as_node) ==
    [executable |-> Join("NCCL_TESTS_HOME", collective_to_test_exe(collective).val),
     algorithm |-> algorithm,
     ms_xml_file |-> XmlPath(params_to_xml(collective, algorithm, num_nodes, num_gpus,
                                           channels, chunks, gpu_as_node).val),
     ms_channels |-> channels, ms_chunks |-> chunks, gpu_as_node |-> gpu_as_node,
     num_nodes |-> num_nodes, total_gpus |-> num_gpus, buffer_size |-> buffer_size,
     nc_collective |-> collective, nc_op |-> reduction_op, nc_dtype |-> data_type]

\* the expansion of the dimension lists in nested order: collective, buffer
\* size, data type, reduction op, algorithm, chunk, channel, device-as-node flag
ExpectedDescriptors ==
    Flatten([c \in 1..Len(collectives) |->
     Flatten([b \in 1..Len(buffer_sizes) |->
      Flatten([d \in 1..Len(data_types) |->
       Flatten([o \in 1..Len(reduction_ops) |->
        Flatten([a \in 1..Len(comm_algorithms) |->
         Flatten([k \in 1..Len(AllowedChunks(comm_algorithms[a])) |->
          Flatten([h \in 1..Len(AllowedChannels(comm_algorithms[a])) |->
           [g \in 1..Len(gpus_as_nodes) |->
              ExpectedDescriptor(collectives[c], buffer_sizes[b], data_types[d],
                                 reduction_ops[o], comm_algorithms[a],
                                 AllowedChunks(comm_algorithms[a])[k],
                                 AllowedChannels(comm_algorithms[a])[h],
                                 gpus_as_nodes[g])]])])])])])])])

\* a list without repeated elements
Injective(list) == \A j, k \in 1..Len(list) : list[j] = list[k] => j = k

\* C11. With every XML file present, the descriptor list that generation
\* leaves is the expansion of the dimension lists under the allowed sets, in
\* nested order (collective outermost, then buffer size, data type, reduction
\* op, algorithm, chunk, channel, device-as-node flag), each tuple once when no
\* dimension list repeats an element. The list is a function of the
\* configuration alone, so two generations yield the same list.
C11_ExpansionInOrder ==
    [][(pc = "generate" /\ pc' = "exec" /\ CandidateXmls \cap missing_xmls = {})
        => /\ experiment_descriptors' = ExpectedDescriptors
           /\ ( /\ Injective(collectives) /\ Injective(comm_algorithms)
                /\ Injective(buffer_sizes) /\ Injective(data_types)
                /\ Injective(reduction_ops) /\ Injective(gpus_as_nodes) )
              => Injective(experiment_descriptors')]_vars

C11_Witness ==
    /\ pc = "exec"
    /\ missing_xmls = {}
    /\ collectives = <<"all-gather", "all-reduce">>
    /\ comm_algorithms = <<"ring", "binary-tree">>
    /\ Len(buffer_sizes) = 2 /\ Len(data_types) = 2 /\ Len(reduction_ops) = 2
    /\ Len(gpus_as_nodes) = 2
    /\ Len(experiment_descriptors) = 2 * 8 * (6 + 15) * 2
    /\ experiment_descriptors[1].ms_channels = 4
    /\ experiment_descriptors[3].ms_channels = 8
    /\ experiment_descriptors[3].ms_chunks = 1
    /\ experiment_descriptors[7].ms_chunks = 2

\* the k-th attempt of a sweep: descriptor by descriptor, the repetitions of a
\* descriptor one after the other
AttemptInOrder(k) == <<((k - 1) \div num_repetitions) + 1, (k - 1) % num_repetitions>>

\* C12. Every descriptor is attempted num_repetitions times, consecutively:
\* the attempts begun are, in order, repetitions 0 and 1 of descriptor 1, then
\* of descriptor 2, and so on; whatever entry the last attempt left, the attempt
\* due next is the next of that order; there is no attempt beyond the
\* repetition count, and a sweep that reaches its end has made all of them.
C12_RepetitionsUnconditional ==
    /\ attempts = [k \in 1..Len(attempts) |-> AttemptInOrder(k)]
    /\ Len(attempts) <= Len(experiment_descriptors) * num_repetitions
    /\ \A k \in 1..Len(attempts) : attempts[k][2] < num_repetitions
    /\ (pc = "exec" /\ InLoop) => <<progress, i>> = AttemptInOrder(Len(attempts) + 1)
    /\ pc = "done" => Len(attempts) = Len(experiment_descriptors) * num_repetitions

C12_Witness ==
    /\ pc = "done"
    /\ ~ignore_error_status_codes
    /\ skip_finished
    /\ Len(attempts) = 2 * Len(experiment_descriptors)
    /\ Len(attempts) >= 4
    /\ manifest_collection[1].overall_result = "Failure"
    /\ \E k \in 1..Len(manifest_collection) :
          manifest_collection[k].overall_result = "Skipped"

\* C13. Execution is sequential: an attempt begins only when no external
\* process is alive, the process of an attempt is waited for only after both
\* of its streams were read to their end, so at most one process is alive at any
\* time, it is the process of the current attempt, and the attempts begin in
\* generation order.
C13_Sequential ==
    [][/\ Cardinality(running') <= 1
       /\ running' \subseteq {<<progress', i'>>}
       /\ attempts' # attempts
          => /\ running = {}
             /\ attempts' = Append(attempts, AttemptInOrder(Len(attempts) + 1))
       /\ (running # {} /\ running' = {}) => pc = "wait" /\ status' # NoStatus]_vars

C13_Witness ==
    /\ pc = "wait"
    /\ spawned = 3
    /\ running = {<<2, 0>>}
    /\ Len(attempts) = 3

\* the rows of the lines that parse_line classifies as table rows, in order
DataRows(stream) ==
    LET all == [k \in 1..Len(stream) |-> parse_line(stream[k])]
        some == SelectSeq(all, LAMBDA r : r.kind = "Ok(Some)")
    IN [k \in 1..Len(some) |-> some[k].row]

\* C14. When the stdout of the external process has been read to its end, the
\* rows of the attempt are the table rows of the stdout lines read, in the
\* order of the lines.
C14_StdoutRowsParsed ==
    pc \in {"stderr", "wait"} => rows = DataRows(stdout_seen)

\* the lines classified so far
Classified == 1..Len(results)

\* C15. parse_line is total: whatever the line, it returns Ok(None) or
\* Ok(Some(row)); it never panics on an index that is out of bounds.
C15_Total ==
    \A k \in Classified : results[k].kind \in {"Ok(None)", "Ok(Some)"}

C15_Witness ==
    /\ Len(results) = 3
    /\ lines[1] = ScenarioA /\ results[1].kind = "Ok(Some)"
    /\ lines[2] = unwords(SubSeq(ScenarioATokens, 1, 12)) /\ results[2] = OkNone
    /\ lines[3] = ScenarioB /\ results[3] = OkNone

\* a line of 13 tokens in which the pattern of parse.rs:38 matches nowhere
TableShaped(line) == ~re_is_match(line) /\ Len(split_whitespace(line)) = 13

\* the typed columns that parse_line decodes: size and count as u64, root as
\* i64, the three times and bandwidths of both halves as f64
TypedColumnsDecode(tokens) ==
    /\ parse_u64(tokens[1]).ok /\ parse_u64(tokens[2]).ok
    /\ parse_i64(tokens[5]).ok
    /\ \A c \in {6, 7, 8, 10, 11, 12} : parse_f64(tokens[c]).ok

\* an error count is an unsigned number or "N/A"
ErrorCount(token) == parse_u64(token).ok \/ token = <<"N", "/", "A">>

\* C16 as stated. A line of 13 tokens that is not a log line and in which a
\* typed column does not decode, the two error-count columns (unsigned or
\* "N/A") included, is ignored: Ok(None).
C16_BadColumnIgnored ==
    \A k \in Classified :
        LET tokens == split_whitespace(lines[k])
        IN ( /\ TableShaped(lines[k])
             /\ \/ ~TypedColumnsDecode(tokens)
                \/ ~ErrorCount(tokens[9])
                \/ ~ErrorCount(tokens[13]) )
           => results[k] = OkNone

\* C16 as amended. A line of 13 tokens that is not a log line and in which
\* size, count, root or one of the six times and bandwidths does not decode is
\* ignored: Ok(None). The two error-count columns are not decoded: a row keeps
\* their tokens as they are, whatever they hold.
C16_BadTypedColumnIgnored ==
    \A k \in Classified :
        LET tokens == split_whitespace(lines[k])
        IN /\ (TableShaped(lines[k]) /\ ~TypedColumnsDecode(tokens))
              => results[k] = OkNone
           /\ (TableShaped(lines[k]) /\ TypedColumnsDecode(tokens))
              => /\ results[k].kind = "Ok(Some)"
                 /\ results[k].row.oop_num_wrong = tokens[9]
                 /\ results[k].row.ip_num_wrong = tokens[13]

C16_Witness ==
    /\ Len(results) = 1
    /\ lines[1] = unwords([ScenarioATokens EXCEPT ![5] = <<"a", "b", "c">>])
    /\ results[1] = OkNone

\* the row a round trip gives back: the empty reduction op becomes "N/A"
Normalized(row) == [row EXCEPT !.redop = IF @ = <<>> THEN <<"N", "/", "A">> ELSE @]

\* C17. The line built from a valid row is classified Ok(Some(row')) with row'
\* equal to the row, the empty reduction op being replaced by "N/A".
C17_RoundTrip ==
    \A k \in Classified :
        \A row \in ValidRows :
            lines[k] = RowToLine(row) => results[k] = OkSome(Normalized(row))

\* C18. A line of 13 tokens that is not a log line and whose typed columns all
\* decode is classified Ok(Some(row)), the fields of row taken from the tokens
\* in column order; for the line of Scenario A the row has size 1048576, count
\* 262144, dtype float, redop sum, root -1 and both error counts "0".
C18_ColumnOrder ==
    \A k \in Classified :
        LET tokens == split_whitespace(lines[k])
            row == results[k].row
        IN /\ (TableShaped(lines[k]) /\ TypedColumnsDecode(tokens))
              => /\ results[k].kind = "Ok(Some)"
                 /\ row.size = parse_u64(tokens[1]).val
                 /\ row.count = parse_u64(tokens[2]).val
                 /\ row.dtype = tokens[3]
                 /\ row.redop = tokens[4]
                 /\ row.root = parse_i64(tokens[5]).val
                 /\ row.oop_time = parse_f64(tokens[6]).val
                 /\ row.oop_alg_bw = parse_f64(tokens[7]).val
                 /\ row.oop_bus_bw = parse_f64(tokens[8]).val
                 /\ row.oop_num_wrong = tokens[9]
                 /\ row.ip_time = parse_f64(tokens[10]).val
                 /\ row.ip_alg_bw = parse_f64(tokens[11]).val
                 /\ row.ip_bus_bw = parse_f64(tokens[12]).val
                 /\ row.ip_num_wrong = tokens[13]
           /\ lines[k] = ScenarioA
              => /\ results[k].kind = "Ok(Some)"
                 /\ row.size = <<"1", "0", "4", "8", "5", "7", "6">>
                 /\ row.count = <<"2", "6", "2", "1", "4", "4">>
                 /\ row.dtype = <<"f", "l", "o", "a", "t">>
                 /\ row.redop = <<"s", "u", "m">>
                 /\ row.root = [neg |-> TRUE, digits |-> <<"1">>]
                 /\ row.oop_time = Finite(FALSE, <<"1", "2", "3">>, 0 - 3)
                 /\ row.ip_bus_bw = Finite(FALSE, <<"3", "3", "3">>, 0 - 3)
                 /\ row.oop_num_wrong = <<"0">>
                 /\ row.ip_num_wrong = <<"0">>

C18_Witness ==
    /\ Len(results) = 1
    /\ lines[1] = ScenarioA
    /\ results[1].kind = "Ok(Some)"

\* a token of the log-preamble shape: identifier characters, a colon, an
\* integer, a colon, an integer
PreambleToken(token) ==
    \E p, q \in 1..Len(token) :
        /\ p > 1 /\ q > p + 1 /\ q < Len(token)
        /\ token[p] = ":" /\ token[q] = ":"
        /\ \A k \in 1..(p - 1) :
              token[k] \in Range(UpperCase) \cup Range(LowerCase) \cup Digit \cup {"_"}
        /\ \A k \in ((p + 1)..(q - 1)) \cup ((q + 1)..Len(token)) : token[k] \in Digit

\* C19. A line with a token of the log-preamble shape is ignored, Ok(None),
\* whatever the number of its tokens and whatever its other tokens: the check
\* for log lines comes before the decoding of a table row.
C19_PreambleIgnored ==
    \A k \in Classified :
        (\E t \in Range(split_whitespace(lines[k])) : PreambleToken(t))
        => results[k] = OkNone

C19_Witness ==
    /\ Len(results) = 1
    /\ lines[1] = unwords([ScenarioATokens EXCEPT ![3] = <<"x", ":", "1", ":", "2">>])
    /\ TypedColumnsDecode(split_whitespace(lines[1]))
    /\ results[1] = OkNone

----------------------------------------------------------------------------
\* the calls of exp_params_to_output_filename made so far
OutputCalls == {k \in 1..Len(calls) : calls[k].fn = "exp_params_to_output_filename"}

\* the calls of params_to_xml made so far
XmlCalls == {k \in 1..Len(calls) : calls[k].fn = "params_to_xml"}

\* {collective}_{algorithm}_node{N}_gpu{G}_mcl{channels}_mck{chunks}_buf{factor}
\* _gan{0|1}_i{repetition}.{ext}
OutputNameShape(params, repetition, ext) ==
    <<params.nc_collective, params.algorithm, "node", params.num_nodes,
      "gpu", params.total_gpus, "mcl", params.ms_channels, "mck", params.ms_chunks,
      "buf", params.buffer_size, "gan", IF params.gpu_as_node THEN 1 ELSE 0,
      "i", repetition, ext>>

\* C21: the output file name is a function of the parameters, the repetition
\* index and the extension only, of the shape
\* {collective}_{algorithm}_node{N}_gpu{G}_mcl{channels}_mck{chunks}_buf{factor}
\* _gan{0|1}_i{repetition}.{ext}: calls with identical inputs return identical
\* names whatever was called before, and the gan token is 1 exactly when the
\* device-as-node flag is set.
C21_OutputNamePure ==
    /\ \A j \in OutputCalls :
          /\ calls[j].name =
                 OutputNameShape(calls[j].params, calls[j].iteration, calls[j].extension)
          /\ (calls[j].name[14] = 1) <=> calls[j].params.gpu_as_node
          /\ calls[j].name[14] \in {0, 1}
    /\ \A j, k \in OutputCalls :
          (/\ calls[j].params = calls[k].params
           /\ calls[j].iteration = calls[k].iteration
           /\ calls[j].extension = calls[k].extension)
              => calls[j].name = calls[k].name

\* the same name asked for twice, with the flag set, after another call
C21_Witness ==
    /\ Len(calls) = MaxCalls
    /\ OutputCalls = 1..MaxCalls
    /\ calls[1].params.gpu_as_node
    /\ calls[1].iteration = 1
    /\ calls[MaxCalls].params = calls[1].params
    /\ calls[MaxCalls].iteration = calls[1].iteration
    /\ calls[MaxCalls].extension = calls[1].extension
    /\ calls[MaxCalls].name = calls[1].name

----------------------------------------------------------------------------
\* a name without its last n tokens
DropLast(name, n) == SubSeq(name, 1, Len(name) - n)

\* C22 as written: for the same parameters the XML file name and the output
\* file name are built from the same token sequence and differ only in the
\* repetition index and the extension.
C22_SameTokenSequence ==
    \A j \in XmlCalls, k \in OutputCalls :
        calls[j].params = calls[k].params
            => DropLast(calls[j].name, 1) = DropLast(calls[k].name, 3)

\* C22: for the same parameters the XML file name is the output file name with
\* the collective converted (all-reduce to allreduce), without the buffer
\* factor and without the repetition index, and with the extension xml; the
\* algorithm, node, device, channel, chunk and gan tokens are the same.
C22_SharedTokens ==
    \A j \in XmlCalls, k \in OutputCalls :
        calls[j].params = calls[k].params
            => /\ calls[j].name =
                      <<converted_collective(calls[k].name[1]).val>>
                          \o SubSeq(calls[k].name, 2, 10)
                          \o SubSeq(calls[k].name, 13, 14)
                          \o <<"xml">>
               /\ SubSeq(calls[k].name, 11, 12) = <<"buf", calls[k].params.buffer_size>>
               /\ SubSeq(calls[k].name, 15, 16) = <<"i", calls[k].iteration>>
               /\ calls[k].name[1] = calls[k].params.nc_collective

\* both names of one descriptor have been asked for
C22_Witness ==
    /\ Len(calls) = 2
    /\ calls[1].fn = "params_to_xml"
    /\ calls[2].fn = "exp_params_to_output_filename"
    /\ calls[1].params = calls[2].params
    /\ calls[1].params.ms_channels # calls[1].params.ms_chunks
    /\ calls[1].name[1] # calls[2].name[1]
    /\ Len(calls[1].name) + 3 # Len(calls[2].name)

----------------------------------------------------------------------------
\* the dimensions of a descriptor other than the reduction op, the data type
\* and the buffer factor
XmlDimensions(params) ==
    <<params.nc_collective, params.algorithm, params.num_nodes, params.total_gpus,
      params.ms_channels, params.ms_chunks, params.gpu_as_node>>

\* C23: two descriptors that differ only in reduction op and/or data type have
\* the same XML file path; two descriptors that differ in collective,
\* algorithm, node count, device count, channel count, chunk count or
\* device-as-node flag have different XML file paths.
C23_XmlPathByDimensions ==
    \A j, k \in XmlCalls :
        /\ (/\ XmlDimensions(calls[j].params) = XmlDimensions(calls[k].params)
            /\ calls[j].params.buffer_size = calls[k].params.buffer_size)
               => /\ XmlPath(calls[j].name) = XmlPath(calls[k].name)
                  /\ calls[j].params.ms_xml_file = calls[k].params.ms_xml_file
        /\ XmlDimensions(calls[j].params) # XmlDimensions(calls[k].params)
               => /\ XmlPath(calls[j].name) # XmlPath(calls[k].name)
                  /\ calls[j].params.ms_xml_file # calls[k].params.ms_xml_file
        /\ calls[j].params.ms_xml_file = XmlPath(calls[j].name)

\* the XML file of two descriptors that differ in reduction op and data type
C23_Witness ==
    /\ Len(calls) = 2
    /\ XmlCalls = {1, 2}
    /\ calls[1].params.nc_op # calls[2].params.nc_op
    /\ calls[1].params.nc_dtype # calls[2].params.nc_dtype
    /\ XmlDimensions(calls[1].params) = XmlDimensions(calls[2].params)
    /\ XmlPath(calls[1].name) = XmlPath(calls[2].name)

----------------------------------------------------------------------------
\* C29: the XML file name is built from the converted names of both the
\* collective and the algorithm: its first token is the converted collective
\* (allreduce for all-reduce) and its second token the converted algorithm
\* (binary_tree for binary-tree, recursive_doubling_halving for
\* recursive-halving-doubling).
C29_ConvertedAlgorithmToken ==
    \A j \in XmlCalls :
        /\ calls[j].name[1] = converted_collective(calls[j].params.nc_collective).val
        /\ calls[j].name[2] = converted_algo(calls[j].params.algorithm).val

----------------------------------------------------------------------------
\* C24: within one attempt stdout is read to its end before any stderr line
\* is read, and the exit status is obtained only after both streams have been
\* read to their end; when the process never closes stdout, no stderr line is
\* ever read.
C24_StdoutThenStderrThenExit ==
    /\ pc \in {"stdout", "blocked"} => (stderr_seen = 0 /\ status = NoStatus)
    /\ pc \in {"stderr", "blocked_stderr", "wait", "blocked_wait"} => status = NoStatus
    /\ status # NoStatus => pc \notin RunPcs

\* a stderr line has been read, after a stdout line and the end of stdout
C24_Witness ==
    /\ pc = "stderr"
    /\ stdout_seen # <<>>
    /\ stderr_seen > 0
    /\ status = NoStatus

----------------------------------------------------------------------------
\* C28: PartialFailure is never recorded: every manifest entry is Success,
\* Failure, Skipped or Blacklisted, and an attempt whose process exits
\* successfully with no parsed row is recorded as Success.
C28_NoPartialFailure ==
    /\ \A k \in 1..Len(manifest_collection) :
          manifest_collection[k].overall_result
              \in {"Success", "Failure", "Skipped", "Blacklisted"}
    /\ (AttemptWasRun /\ success(status) /\ rows = <<>>)
          => /\ manifest_collection # <<>>
             /\ Last(manifest_collection).overall_result = "Success"
             /\ EntryOf(Last(manifest_collection), experiment_descriptors[Last(attempts)[1]])

\* a process printed a result row, exited with status 0, and no row was parsed
C28_Witness ==
    /\ AttemptWasRun
    /\ success(status)
    /\ rows = <<>>
    /\ ScenarioA \in Range(stdout_seen)
    /\ Last(manifest_collection).overall_result = "Success"

----------------------------------------------------------------------------
\* C26: a line whose number of whitespace-separated tokens is not exactly 13
\* is ignored, whether it has none, 1 to 12, or 14 and more, and whatever the
\* tokens are; a data row comes only from a line of exactly 13 tokens.
C26_ThirteenTokens ==
    \A k \in Classified :
        /\ Len(split_whitespace(lines[k])) # 13 => results[k] = OkNone
        /\ results[k].kind = "Ok(Some)" => Len(split_whitespace(lines[k])) = 13

\* the empty line, the row without its last column and the row with one more
\* column have been ignored
C26_Witness ==
    /\ Len(results) = 3
    /\ lines[1] = <<>> /\ results[1] = OkNone
    /\ Len(split_whitespace(lines[2])) = 12 /\ results[2] = OkNone
    /\ Len(split_whitespace(lines[3])) = 14 /\ results[3] = OkNone

----------------------------------------------------------------------------
\* the log file name of repetition r of descriptor d, as main.rs:452-454 builds it
LogName(d, r) == exp_params_to_output_filename(d, r, "log")

\* C27: the log file names of two different (descriptor, repetition) pairs of
\* the generated sequence differ, also when the two descriptors differ only in
\* data type or reduction op.
C27_UniqueLogNames ==
    \A j, k \in 1..Len(experiment_descriptors) :
        \A r, q \in 0..(num_repetitions - 1) :
            (experiment_descriptors[j] # experiment_descriptors[k] \/ r # q)
                => LogName(experiment_descriptors[j], r)
                       # LogName(experiment_descriptors[k], q)

----------------------------------------------------------------------------
\* an external process never closed a stream, or never exited
Hung == pc \in {"blocked", "blocked_stderr", "blocked_wait"}

\* C25: a sweep that has started ends with the final report if and only if
\* every external process it starts closes stdout and stderr and exits. When a
\* process never does, the entry of its attempt is never appended, no later
\* attempt starts and the report is never printed.
C25_ReportIffProcessesEnd ==
    /\ (pc = "exec") ~> (pc = "done" \/ Hung)
    /\ [](Hung => [](Hung /\ report = <<>>))

====
